---- MODULE Spec2Model ----
(***************************************************************************)
(* A model of rcarve: the project model with its per-operation toolpath    *)
(* cache, the toolpath orchestrator, the pocket generator's contour loop   *)
(* and the Grbl post-processor.                                            *)
(*                                                                         *)
(* Geometry is modelled on an integer grid.  A 2D point is a pair <<x,y>>, *)
(* a 3D vertex a triple <<x,y,z>>.  The polygon kernels the code calls     *)
(* (clipper2's inflate and difference, cavalier_contours' parallel_offset) *)
(* act on the cross-section of a polygon along the x axis: a region is a   *)
(* finite set of unit cells (cell c covers [c, c+1]), an offset erodes or  *)
(* dilates that set, and every maximal run of cells lo..hi-1 is returned   *)
(* as the ring <<lo,0>>, <<hi,0>>, <<hi,H>>, <<lo,H>> (H = SectionHeight). *)
(***************************************************************************)
EXTENDS Integers, Sequences, FiniteSets, TLC

\* Option: None is the empty tuple, Some(v) the tuple of v.
None == <<>>

Some(v) == <<v>>

unwrap(option) == option[1]

\* ------------------------------------------------------------------ bounds
\* The most operations a project holds.
MaxOps == 2
\* The system clock reads 0..MaxClock.
MaxClock == 1

\* ------------------------------------------------------------- sequences
Range(s) == {s[i] : i \in 1..Len(s)}

Last(s) == s[Len(s)]

RemoveAt(s, i) == SubSeq(s, 1, i - 1) \o SubSeq(s, i + 1, Len(s))

RECURSIVE Concat(_)
Concat(ss) == IF ss = <<>> THEN <<>> ELSE Head(ss) \o Concat(Tail(ss))

SetMin(S) == CHOOSE m \in S : \A n \in S : m <= n

SetMax(S) == CHOOSE m \in S : \A n \in S : n <= m

Abs(n) == IF n < 0 THEN -n ELSE n

\* A local binding: value is computed once, however often Body uses it.
Bind(value, Body(_)) == Body(value)

\* Result values of the code's Result<T>.  An anyhow error is its chain of
\* messages, outermost context first; a message is a sequence of tokens.
Ok(v) == [ok |-> TRUE, value |-> v]

Err(msg) == [ok |-> FALSE, chain |-> <<msg>>]

\* A call that does not return has no result; it is written as the error with
\* an empty chain so that it propagates through every caller.
Diverges == [ok |-> FALSE, chain |-> <<>>]

\* anyhow's with_context: on an error, push a new outermost message.
with_context(r, msg) ==
    IF r.ok \/ r = Diverges THEN r ELSE [ok |-> FALSE, chain |-> <<msg>> \o r.chain]

\* anyhow's Display for Error ("{}"): the outermost message only.
to_string(r) == r.chain[1]

Contains(msg, token) == \E i \in 1..Len(msg) : msg[i] = token

\* ------------------------------------------------------------ the kernel
SectionHeight == 4

X(p) == p[1]

Y(p) == p[2]

\* The cells covered by a closed polyline: between its least and greatest x.
Cells(points) ==
    IF points = <<>> THEN {}
    ELSE LET xs == {X(points[i]) : i \in 1..Len(points)}
         IN  SetMin(xs) .. (SetMax(xs) - 1)

\* clipper2::difference
difference(subject, clip) == subject \ clip

\* Offset of a region by a signed delta: dilation for delta > 0, erosion for
\* delta < 0, the region itself for delta = 0.
Offset(cells, delta) ==
    IF delta >= 0
    THEN {c + k : c \in cells, k \in (-delta)..delta}
    ELSE {c \in cells : \A k \in delta..(-delta) : (c + k) \in cells}

\* The maximal runs of a region, each as <<lo, hi>> (cells lo..hi-1), in
\* ascending order.
Ascending(runs) ==
    [k \in 1..Cardinality(runs) |->
        CHOOSE r \in runs : Cardinality({q \in runs : q[1] < r[1]}) = k - 1]

Runs(cells) ==
    Ascending({<<lo, SetMin({hi \in (lo + 1)..(SetMax(cells) + 1) : hi \notin cells})>> :
                  lo \in {c \in cells : (c - 1) \notin cells}})

\* The ring around one run, counter-clockwise, without a repeated closing vertex.
Ring(run) ==
    << <<run[1], 0>>, <<run[2], 0>>, <<run[2], SectionHeight>>, <<run[1], SectionHeight>> >>

\* clipper2::inflate: a Polygons value is kept as its region.
inflate(cells, delta) == Offset(cells, delta)

\* Polygons::polygons / Polygon::paths: one polygon with one path per run.
polygons(cells) == Bind(Runs(cells), LAMBDA runs : [i \in 1..Len(runs) |-> << Ring(runs[i]) >>])

\* ----------------------------------------------------------------- curves
Line(p0, p1) == [kind |-> "Line", p0 |-> p0, p1 |-> p1]

Circle(center, radius) == [kind |-> "Circle", center |-> center, radius |-> radius]

BezPath(elements) == [kind |-> "BezPath", elements |-> elements]

MoveTo(p) == <<"MoveTo", p>>

LineTo(p) == <<"LineTo", p>>

ClosePath == <<"ClosePath">>

\* A closed rectangular path over [lo, hi] x [0, SectionHeight].
BoxPath(lo, hi) ==
    BezPath(<< MoveTo(<<lo, 0>>), LineTo(<<hi, 0>>), LineTo(<<hi, SectionHeight>>),
               LineTo(<<lo, SectionHeight>>), ClosePath >>)

\* kurbo's BezPath::path_segments: the line segments of a path; ClosePath adds
\* the segment back to the sub-path's start unless the pen is already there.
RECURSIVE path_segments(_, _, _)
path_segments(elements, start, pen) ==
    IF elements = <<>> THEN <<>>
    ELSE LET el == Head(elements)
         IN  CASE el[1] = "MoveTo" -> path_segments(Tail(elements), el[2], el[2])
               [] el[1] = "LineTo" ->
                    <<(<<pen, el[2]>>)>> \o path_segments(Tail(elements), start, el[2])
               [] OTHER ->
                    (IF pen # start THEN <<(<<pen, start>>)>> ELSE <<>>)
                        \o path_segments(Tail(elements), start, start)

Mid(a, b) == <<(X(a) + X(b)) \div 2, (Y(a) + Y(b)) \div 2>>

\* Curve::flatten.  A circle is sampled at its smallest count, four segments;
\* a path segment at its smallest count, two intervals (three samples), so the
\* seam between two segments is duplicated as in the code.
flatten(curve) ==
    CASE curve.kind = "Line" -> <<curve.p0, curve.p1>>
      [] curve.kind = "Circle" ->
            LET c == curve.center
                r == curve.radius
            IN  << <<X(c) + r, Y(c)>>, <<X(c), Y(c) + r>>, <<X(c) - r, Y(c)>>,
                   <<X(c), Y(c) - r>>, <<X(c) + r, Y(c)>> >>
      [] OTHER ->
            Bind(path_segments(curve.elements, <<0, 0>>, <<0, 0>>), LAMBDA segs :
                Concat([i \in 1..Len(segs) |->
                    <<segs[i][1], Mid(segs[i][1], segs[i][2]), segs[i][2]>>]))

\* Curve::is_closed
is_closed(curve) ==
    CASE curve.kind = "Line" -> FALSE
      [] curve.kind = "Circle" -> TRUE
      [] OTHER -> curve.elements # <<>> /\ Last(curve.elements) = ClosePath

\* Curve::apply_affine, for the translations along x the model uses.
apply_affine(curve, dx) ==
    LET move(p) == <<X(p) + dx, Y(p)>>
    IN  CASE curve.kind = "Line" -> Line(move(curve.p0), move(curve.p1))
          [] curve.kind = "Circle" -> Circle(move(curve.center), curve.radius)
          [] OTHER -> BezPath([i \in 1..Len(curve.elements) |->
                          IF Len(curve.elements[i]) = 2
                          THEN <<curve.elements[i][1], move(curve.elements[i][2])>>
                          ELSE curve.elements[i]])

\* ------------------------------------------------------------------ tools
Endmill(d) == [kind |-> "Endmill", diameter |-> d]

VBit(angle) == [kind |-> "VBit", angle_degrees |-> angle]

\* A Tool; stepover is the fraction of the diameter, in percent.
Tool(diameter, stepover, tool_type) ==
    [diameter |-> diameter, stepover |-> stepover, tool_type |-> tool_type]

\* Vec::get with the code's 0-based index.
Get(vec, index) == IF index \in 0..(Len(vec) - 1) THEN Some(vec[index + 1]) ELSE None

\* ------------------------------------------------------------- operations
Curves(ids) == [kind |-> "Curves", curves |-> ids]

Region(id) == [kind |-> "Region", region |-> id]

Profile(depth, side, tool, targets) ==
    [kind |-> "Profile", target_depth |-> depth, cut_side |-> side,
     tool_index |-> tool, targets |-> targets]

Pocket(depth, tool, target) ==
    [kind |-> "Pocket", target_depth |-> depth, tool_index |-> tool, target |-> target]

VCarve(depth, tool, targets, clearance) ==
    [kind |-> "VCarve", target_depth |-> depth, tool_index |-> tool,
     targets |-> targets, clearance_tool_index |-> clearance]

\* ------------------------------------------------------ target resolution
\* build_curve_transform_map: the transform of the last import that lists the
\* curve, None when no import lists it.
build_curve_transform_map(imports) ==
    [id \in UNION {Range(imports[k].curve_ids) : k \in 1..Len(imports)} |->
        imports[SetMax({k \in 1..Len(imports) : id \in Range(imports[k].curve_ids)})].transform]

\* flatten_curve: the curve is cloned, the clone transformed and flattened.
flatten_curve(shapes, id, curve_transforms) ==
    IF id \notin DOMAIN shapes.curves
    THEN Err(<<"Curve", ToString(id), "not", "found">>)
    ELSE LET stored == shapes.curves[id]
             curve == IF id \in DOMAIN curve_transforms
                      THEN apply_affine(stored, curve_transforms[id])
                      ELSE stored
         IN  Bind(flatten(curve), LAMBDA points :
                 IF points = <<>>
                 THEN Err(<<"Curve", ToString(id), "produced", "no", "points">>)
                 ELSE Ok(points))

\* close_loop: repeat the first vertex at the end unless it is there already.
close_loop(points) ==
    IF points # <<>> /\ points[1] # Last(points) THEN Append(points, points[1]) ELSE points

\* flatten_curves: every listed curve in order; the first failure is returned;
\* loops of fewer than three vertices are dropped.
RECURSIVE flatten_curves(_, _, _)
flatten_curves(shapes, curves, curve_transforms) ==
    IF curves = <<>> THEN Ok(<<>>)
    ELSE Bind(flatten_curve(shapes, Head(curves), curve_transforms), LAMBDA r :
             IF ~r.ok THEN r
             ELSE Bind(flatten_curves(shapes, Tail(curves), curve_transforms), LAMBDA rest :
                  Bind(close_loop(r.value), LAMBDA points :
                      IF ~rest.ok THEN rest
                      ELSE Ok((IF Len(points) >= 3 THEN <<points>> ELSE <<>>)
                              \o rest.value))))

\* flatten_region: the outer loop (kept whatever its length) and the holes of
\* at least three vertices, as [outer, holes].
RECURSIVE flatten_holes(_, _, _)
flatten_holes(shapes, holes, curve_transforms) ==
    IF holes = <<>> THEN Ok(<<>>)
    ELSE Bind(flatten_curve(shapes, Head(holes), curve_transforms), LAMBDA r :
             IF ~r.ok THEN r
             ELSE Bind(flatten_holes(shapes, Tail(holes), curve_transforms), LAMBDA rest :
                  Bind(close_loop(r.value), LAMBDA points :
                      IF ~rest.ok THEN rest
                      ELSE Ok((IF Len(points) >= 3 THEN <<points>> ELSE <<>>)
                              \o rest.value))))

flatten_region(shapes, region, curve_transforms) ==
    Bind(flatten_curve(shapes, region.outer, curve_transforms), LAMBDA o :
        IF ~o.ok THEN o
        ELSE Bind(flatten_holes(shapes, region.holes, curve_transforms), LAMBDA h :
                 IF ~h.ok THEN h
                 ELSE Ok([outer |-> close_loop(o.value), holes |-> h.value])))

\* ShapeRegistry::get_region followed by flatten_region, as every caller does.
resolve_region(shapes, region_id, curve_transforms) ==
    IF region_id \notin DOMAIN shapes.regions
    THEN Err(<<"Region", ToString(region_id), "not", "found">>)
    ELSE flatten_region(shapes, shapes.regions[region_id], curve_transforms)

\* first_polygon: Ok(None) for an empty curve list.
first_polygon(shapes, target, curve_transforms) ==
    IF target.kind = "Curves"
    THEN IF target.curves = <<>> THEN Ok(None)
         ELSE Bind(flatten_curve(shapes, target.curves[1], curve_transforms), LAMBDA r :
                  IF ~r.ok THEN r ELSE Ok(Some(close_loop(r.value))))
    ELSE Bind(resolve_region(shapes, target.region, curve_transforms), LAMBDA r :
             IF ~r.ok THEN r ELSE Ok(Some(close_loop(r.value.outer))))

\* CarvePolygon
CarvePolygon(outer, holes) == [outer |-> outer, holes |-> holes]

\* collect_vcarve_polygons
collect_vcarve_polygons(shapes, targets, curve_transforms) ==
    Bind(IF targets.kind = "Curves"
         THEN Bind(flatten_curves(shapes, targets.curves, curve_transforms), LAMBDA loops :
                  IF ~loops.ok THEN loops
                  ELSE Ok([i \in 1..Len(loops.value) |->
                              CarvePolygon(loops.value[i], <<>>)]))
         ELSE Bind(resolve_region(shapes, targets.region, curve_transforms), LAMBDA reg :
                  IF ~reg.ok THEN reg
                  ELSE Ok(<<CarvePolygon(reg.value.outer, reg.value.holes)>>)),
         LAMBDA r :
            IF ~r.ok THEN r
            ELSE IF r.value = <<>>
                 THEN Err(<<"V-carve", "requires", "at", "least", "one", "closed", "polygon">>)
                 ELSE r)

\* polygons_for_operation that returns the listed loops of a Pocket in list order.
polygons_for_operation_in_list_order(p, index) ==
    LET curve_transforms == build_curve_transform_map(p.imported_svgs)
        slot == Get(p.operations, index)
        operation == unwrap(slot)
        closed(geometry) ==
            <<close_loop(geometry.outer)>>
                \o [i \in 1..Len(geometry.holes) |-> close_loop(geometry.holes[i])]
    IN  IF slot = None THEN Err(<<"invalid", "operation", "index", ToString(index)>>)
        ELSE CASE operation.kind = "Profile" ->
                    Bind(first_polygon(p.shapes, operation.targets, curve_transforms),
                         LAMBDA polygon :
                        IF ~polygon.ok THEN polygon
                        ELSE IF polygon.value = None THEN Ok(<<>>)
                        ELSE Ok(<<unwrap(polygon.value)>>))
               [] operation.kind = "Pocket" /\ operation.target.kind = "Region" ->
                    Bind(resolve_region(p.shapes, operation.target.region, curve_transforms),
                         LAMBDA region :
                        IF ~region.ok THEN region ELSE Ok(closed(region.value)))
               [] operation.kind = "Pocket" ->
                    Bind(flatten_curves(p.shapes, operation.target.curves, curve_transforms),
                         LAMBDA polys :
                        IF ~polys.ok THEN polys
                        ELSE IF polys.value = <<>>
                        THEN Err(<<"Pocket", "requires", "at", "least", "one", "closed",
                                   "curve">>)
                        ELSE polys)
               [] operation.targets.kind = "Curves" ->
                    flatten_curves(p.shapes, operation.targets.curves, curve_transforms)
               [] OTHER ->
                    Bind(resolve_region(p.shapes, operation.targets.region, curve_transforms),
                         LAMBDA region :
                        IF ~region.ok THEN region ELSE Ok(closed(region.value)))

\* polygons_for_operation: the loops of the operation at index, each closed.
polygons_for_operation(p, index) ==
    LET curve_transforms == build_curve_transform_map(p.imported_svgs)
        slot == Get(p.operations, index)
        operation == unwrap(slot)
        closed(geometry) ==
            <<close_loop(geometry.outer)>>
                \o [i \in 1..Len(geometry.holes) |-> close_loop(geometry.holes[i])]
    IN  IF slot = None THEN Err(<<"invalid", "operation", "index", ToString(index)>>)
        ELSE CASE operation.kind = "Profile" ->
                    Bind(first_polygon(p.shapes, operation.targets, curve_transforms),
                         LAMBDA polygon :
                        IF ~polygon.ok THEN polygon
                        ELSE IF polygon.value = None THEN Ok(<<>>)
                        ELSE Ok(<<unwrap(polygon.value)>>))
               [] operation.kind = "Pocket" /\ operation.target.kind = "Region" ->
                    Bind(resolve_region(p.shapes, operation.target.region, curve_transforms),
                         LAMBDA region :
                        IF ~region.ok THEN region ELSE Ok(closed(region.value)))
               [] operation.kind = "Pocket" ->
                    Bind(flatten_curves(p.shapes, operation.target.curves, curve_transforms),
                         LAMBDA polys :
                        IF ~polys.ok THEN polys
                        ELSE IF polys.value = <<>>
                        THEN Err(<<"Pocket", "requires", "at", "least", "one", "closed",
                                   "curve">>)
                        ELSE Ok(closed([outer |-> Last(polys.value),
                                          holes |-> SubSeq(polys.value, 1,
                                                           Len(polys.value) - 1)])))
               [] operation.targets.kind = "Curves" ->
                    flatten_curves(p.shapes, operation.targets.curves, curve_transforms)
               [] OTHER ->
                    Bind(resolve_region(p.shapes, operation.targets.region, curve_transforms),
                         LAMBDA region :
                        IF ~region.ok THEN region ELSE Ok(closed(region.value)))

\* ------------------------------------------------------------- generators
Toolpath(paths) == [paths |-> paths]

\* The 3D path of a 2D path at depth z.
At3D(path, z) == [i \in 1..Len(path) |-> <<X(path[i]), Y(path[i]), z>>]

\* generate_profile_toolpath that cuts on the line whatever the cut side.
generate_profile_toolpath_on_line(input_poly, tool, cut_side, target_depth) ==
    Bind(polygons(inflate(Cells(input_poly), 0)), LAMBDA offset_polygons :
        IF offset_polygons = <<>>
        THEN Err(<<"No", "offset", "polygon", "generated", "-", "polygon", "may", "have",
                   "collapsed">>)
        ELSE IF offset_polygons[1] = <<>>
             THEN Err(<<"No", "offset", "path", "generated">>)
             ELSE Ok(Toolpath(<<At3D(offset_polygons[1][1], -target_depth)>>)))

\* generate_profile_toolpath
generate_profile_toolpath(input_poly, tool, cut_side, target_depth) ==
    LET radius == tool.diameter \div 2
        offset_delta == CASE cut_side = "Outside" -> radius
                          [] cut_side = "Inside" -> -radius
                          [] OTHER -> 0
    IN  Bind(polygons(inflate(Cells(input_poly), offset_delta)), LAMBDA offset_polygons :
            IF offset_polygons = <<>>
            THEN Err(<<"No", "offset", "polygon", "generated", "-", "polygon", "may", "have",
                       "collapsed">>)
            ELSE IF offset_polygons[1] = <<>>
                 THEN Err(<<"No", "offset", "path", "generated">>)
                 ELSE Ok(Toolpath(<<At3D(offset_polygons[1][1], -target_depth)>>)))

\* generate_pocket_toolpath, step 1: stepover distance.
stepover_dist(tool) == (tool.diameter * tool.stepover) \div 100

\* generate_pocket_toolpath, steps 2-3: the outer boundary minus the islands.
pocket_region(outer_boundary, islands) ==
    IF islands # <<>>
    THEN difference(Cells(outer_boundary), UNION {Cells(islands[i]) : i \in 1..Len(islands)})
    ELSE Cells(outer_boundary)

\* One pass of the loop of step 4 over [current_pocket, pocket_paths, done].
pocket_loop_body(st, step) ==
    Bind(inflate(st.current_pocket, -step), LAMBDA offset_result :
        Bind(polygons(offset_result), LAMBDA rings :
            IF rings = <<>>
            THEN [st EXCEPT !.done = TRUE]
            ELSE [st EXCEPT !.pocket_paths = @ \o SelectSeq(Concat(rings), LAMBDA p : p # <<>>),
                            !.current_pocket = offset_result]))

\* The loop ends only when a deflation leaves nothing.
pocket_loop_ends(current_pocket, step) == step > 0 \/ current_pocket = {}

RECURSIVE pocket_loop(_, _)
pocket_loop(st, step) == IF st.done THEN st ELSE pocket_loop(pocket_loop_body(st, step), step)

\* A conversion that does not close the ring.
pocket_path_3d_open(path_2d, target_depth) == At3D(path_2d, -target_depth)

\* generate_pocket_toolpath, step 5: one closed 3D path per ring.
pocket_path_3d(path_2d, target_depth) ==
    Bind(At3D(path_2d, -target_depth), LAMBDA path_3d :
        IF path_3d # <<>> /\ path_3d[1] # Last(path_3d)
        THEN Append(path_3d, path_3d[1])
        ELSE path_3d)

pocket_result(pocket_paths, target_depth) ==
    Ok(Toolpath([i \in 1..Len(pocket_paths) |-> pocket_path_3d(pocket_paths[i], target_depth)]))

\* generate_pocket_toolpath: Diverges on the inputs on which its loop never ends.
generate_pocket_toolpath(outer_boundary, islands, tool, target_depth) ==
    Bind([current_pocket |-> pocket_region(outer_boundary, islands),
          pocket_paths |-> <<>>, done |-> FALSE], LAMBDA start :
        IF pocket_loop_ends(start.current_pocket, stepover_dist(tool))
        THEN pocket_result(pocket_loop(start, stepover_dist(tool)).pocket_paths, target_depth)
        ELSE Diverges)

\* ---------------------------------------------------------- offset_polygon
\* Twice the signed area of a loop (Polyline::area's sign).
Area2(points) ==
    LET n == Len(points)
        term(i) == LET a == points[i]
                       b == points[(i % n) + 1]
                   IN  X(a) * Y(b) - X(b) * Y(a)
        sum[i \in 0..n] == IF i = 0 THEN 0 ELSE sum[i - 1] + term(i)
    IN  IF n = 0 THEN 0 ELSE sum[n]

Reverse(s) == [i \in 1..Len(s) |-> s[Len(s) + 1 - i]]

\* create_polyline for a closed loop: drop the repeated closing vertex, then
\* consecutive duplicates.
RECURSIVE dedup(_)
dedup(points) ==
    IF Len(points) <= 1 THEN points
    ELSE Bind(dedup(Tail(points)), LAMBDA rest :
             IF points[1] = rest[1] THEN rest ELSE <<points[1]>> \o rest)

create_polyline(points) ==
    dedup(IF Len(points) > 1 /\ points[1] = Last(points)
          THEN SubSeq(points, 1, Len(points) - 1)
          ELSE points)

\* Holes lie in the inner band of the section.
HoleRing(run) ==
    << <<run[1], SectionHeight - 1>>, <<run[2], SectionHeight - 1>>,
       <<run[2], 1>>, <<run[1], 1>> >>

\* Polyline::parallel_offset of a counter-clockwise outer loop: a positive
\* delta moves it inward.
offset_outer(points, delta) ==
    Bind(Runs(Offset(Cells(create_polyline(points)), -delta)), LAMBDA runs :
        [i \in 1..Len(runs) |-> Ring(runs[i])])

\* Polyline::parallel_offset of a clockwise hole loop: a positive delta moves
\* it outward, away from the hole.
offset_hole(points, delta) ==
    Bind(Runs(Offset(Cells(create_polyline(points)), delta)), LAMBDA runs :
        [i \in 1..Len(runs) |-> HoleRing(runs[i])])

\* is_point_inside: even-odd ray cast.
is_point_inside(point, polygon) ==
    LET n == Len(polygon)
        crosses(i) ==
            LET a == polygon[i]
                b == polygon[IF i = 1 THEN n ELSE i - 1]
                dy == Y(b) - Y(a)
                lhs == (X(point) - X(a)) * dy
                rhs == (X(b) - X(a)) * (Y(point) - Y(a))
            IN  /\ (Y(a) > Y(point)) # (Y(b) > Y(point))
                /\ IF dy > 0 THEN lhs < rhs ELSE lhs > rhs
    IN  Cardinality({i \in 1..n : crosses(i)}) % 2 = 1

\* Step 3 of offset_polygon: every outer takes the holes not yet taken whose
\* first vertex lies inside it.
RECURSIVE match_holes(_, _)
match_holes(outers, holes) ==
    IF outers = <<>> THEN <<>>
    ELSE LET mine == SelectSeq(holes, LAMBDA h : is_point_inside(h[1], Head(outers)))
             left == SelectSeq(holes, LAMBDA h : ~is_point_inside(h[1], Head(outers)))
         IN  <<[outer |-> Head(outers), holes |-> mine]>> \o match_holes(Tail(outers), left)

offset_one(poly, delta) ==
    LET outer_out == IF poly.outer # <<>> THEN offset_outer(poly.outer, delta) ELSE <<>>
        hole_out == Concat([i \in 1..Len(poly.holes) |->
                        IF poly.holes[i] # <<>> THEN offset_hole(poly.holes[i], delta)
                        ELSE <<>>])
    IN  Bind(SelectSeq(outer_out \o hole_out, LAMBDA pts : Len(pts) >= 3), LAMBDA result :
            match_holes(SelectSeq(result, LAMBDA pts : Area2(pts) > 0),
                        SelectSeq(result, LAMBDA pts : ~(Area2(pts) > 0))))

\* offset_polygon: never an error.
offset_polygon(polys, delta) == Ok(Concat([i \in 1..Len(polys) |-> offset_one(polys[i], delta)]))

\* ------------------------------------------------------------------ V-carve
\* tan of half the included angle, for the angles of the tool catalogue.
tan_half(angle_degrees) == CASE angle_degrees = 90 -> 1

\* f64::MAX, the limit distance when no max depth is given: above every
\* distance of the grid.
F64Max == 1000000

are_collinear(p1, p2, p3) ==
    LET cross == X(p1) * (Y(p2) - Y(p3)) + X(p2) * (Y(p3) - Y(p1)) + X(p3) * (Y(p1) - Y(p2))
        dot == (X(p2) - X(p1)) * (X(p3) - X(p2)) + (Y(p2) - Y(p1)) * (Y(p3) - Y(p2))
    IN  cross = 0 /\ dot > 0

\* The while loop of simplify_ring: drop the middle of the last three vertices
\* as long as they are collinear.
RECURSIVE drop_collinear_tail(_)
drop_collinear_tail(simplified) ==
    LET n == Len(simplified)
    IN  IF n >= 3 /\ are_collinear(simplified[n - 2], simplified[n - 1], simplified[n])
        THEN drop_collinear_tail(RemoveAt(simplified, n - 1))
        ELSE simplified

RECURSIVE simplify_scan(_, _, _)
simplify_scan(points, i, simplified) ==
    IF i > Len(points) THEN simplified
    ELSE simplify_scan(points, i + 1, drop_collinear_tail(Append(simplified, points[i])))

simplify_ring(points) ==
    IF Len(points) < 3 THEN points
    ELSE Bind(simplify_scan(points, 2, <<points[1]>>), LAMBDA s1 :
         Bind(IF Len(s1) >= 3 /\ Last(s1) = s1[1] THEN SubSeq(s1, 1, Len(s1) - 1) ELSE s1,
              LAMBDA s2 :
         Bind(IF Len(s2) >= 3 /\ are_collinear(Last(s2), s2[1], s2[2]) THEN Tail(s2) ELSE s2,
              LAMBDA s3 :
             IF points[1] = Last(points) /\ s3 # <<>> /\ s3[1] # Last(s3)
             THEN Append(s3, s3[1])
             ELSE s3)))

simplify_carve_polygon(poly) ==
    CarvePolygon(simplify_ring(poly.outer),
                 [i \in 1..Len(poly.holes) |-> simplify_ring(poly.holes[i])])

\* build_geo_polygon: every loop needs three points; loops are closed.
build_geo_polygon(poly) ==
    IF Len(poly.outer) < 3 \/ \E i \in 1..Len(poly.holes) : Len(poly.holes[i]) < 3
    THEN Err(<<"Polygon", "loop", "must", "contain", "at", "least", "three", "points">>)
    ELSE Ok([exterior |-> close_loop(poly.outer),
             interiors |-> [i \in 1..Len(poly.holes) |-> close_loop(poly.holes[i])]])

\* The cells of a polygon with holes.
geo_cells(geo_poly) ==
    Cells(geo_poly.exterior)
        \ UNION {Cells(geo_poly.interiors[i]) : i \in 1..Len(geo_poly.interiors)}

\* geo_buffer's skeleton_of_polygon_to_linestring, in section: over every run
\* of the polygon the two slopes of the roof, from each wall up to the ridge,
\* as line strings with unit spacing.
SkeletonY == SectionHeight \div 2

skeleton_of_polygon_to_linestring(geo_poly) ==
    LET up(run) == [k \in 1..(((run[1] + run[2]) \div 2) - run[1] + 1) |->
                       <<run[1] + k - 1, SkeletonY>>]
        down(run) == [k \in 1..(run[2] - ((run[1] + run[2] + 1) \div 2) + 1) |->
                         <<run[2] - k + 1, SkeletonY>>]
    IN  Bind(Runs(geo_cells(geo_poly)), LAMBDA runs :
            Concat([i \in 1..Len(runs) |-> <<up(runs[i]), down(runs[i])>>]))

\* distance_to_polygon_boundary, in section: to the nearest wall.
distance_to_polygon_boundary(point, geo_poly) ==
    LET walls(ring) == {SetMin({X(ring[i]) : i \in 1..Len(ring)}),
                        SetMax({X(ring[i]) : i \in 1..Len(ring)})}
        all == walls(geo_poly.exterior)
                 \cup UNION {walls(geo_poly.interiors[i]) : i \in 1..Len(geo_poly.interiors)}
    IN  SetMin({Abs(X(point) - w) : w \in all})

is_shallow_beyond(distance, limit_dist) == distance <= limit_dist + 1

\* A crossing point taken half way instead of at the limit.
interpolate_half_way(p1, d1, p2, d2, limit) ==
    <<(X(p1) + X(p2)) \div 2, (Y(p1) + Y(p2)) \div 2>>

\* interpolate
interpolate(p1, d1, p2, d2, limit) ==
    IF d2 = d1 THEN p1
    ELSE <<X(p1) + ((limit - d1) * (X(p2) - X(p1))) \div (d2 - d1),
           Y(p1) + ((limit - d1) * (Y(p2) - Y(p1))) \div (d2 - d1)>>

is_shallow(distance, limit_dist) == distance <= limit_dist

\* One coordinate of the walk along a skeleton segment, over
\* [current_path, prev_point, paths]; prev_point is an Option of <<point, distance>>.
walk_coord(st, point, distance, limit_dist, tan_a, max_depth_value) ==
    LET prev == st.prev_point
        zof(d) == -(d \div tan_a)
        moved ==
            IF prev = None THEN st
            ELSE LET prev_p == unwrap(prev)[1]
                     prev_d == unwrap(prev)[2]
                     was == is_shallow(prev_d, limit_dist)
                     now_shallow == is_shallow(distance, limit_dist)
                     cross == interpolate(prev_p, prev_d, point, distance, limit_dist)
                     start == IF st.current_path = <<>>
                              THEN <<(<<X(prev_p), Y(prev_p), zof(prev_d)>>)>>
                              ELSE st.current_path
                 IN  CASE was /\ now_shallow ->
                            [st EXCEPT !.current_path =
                                Append(start, <<X(point), Y(point), zof(distance)>>)]
                       [] was /\ ~now_shallow ->
                            [st EXCEPT !.paths =
                                Append(@, Append(start, <<X(cross), Y(cross), -max_depth_value>>)),
                                       !.current_path = <<>>]
                       [] ~was /\ now_shallow ->
                            [st EXCEPT !.current_path =
                                st.current_path \o
                                    << <<X(cross), Y(cross), -max_depth_value>>,
                                       <<X(point), Y(point), zof(distance)>> >>]
                       [] OTHER -> st
    IN  [moved EXCEPT !.prev_point = Some(<<point, distance>>)]

RECURSIVE walk_segment(_, _, _, _, _, _, _)
walk_segment(segment, i, st, geo_poly, limit_dist, tan_a, max_depth_value) ==
    IF i > Len(segment)
    THEN IF st.current_path # <<>> THEN Append(st.paths, st.current_path) ELSE st.paths
    ELSE walk_segment(segment, i + 1,
             walk_coord(st, segment[i], distance_to_polygon_boundary(segment[i], geo_poly),
                        limit_dist, tan_a, max_depth_value),
             geo_poly, limit_dist, tan_a, max_depth_value)

\* Part 2 of generate_vcarve_toolpath for one polygon: the crease paths, or the
\* error of build_geo_polygon.
crease_paths(poly, limit_dist, tan_a, max_depth_value) ==
    Bind(with_context(build_geo_polygon(simplify_carve_polygon(poly)),
             <<"Failed", "to", "convert", "polygon", "for", "straight-skeleton",
               "computation">>), LAMBDA geo :
        IF ~geo.ok THEN geo
        ELSE Bind(SelectSeq(skeleton_of_polygon_to_linestring(geo.value),
                            LAMBDA seg : Len(seg) >= 2), LAMBDA segments :
                 Ok(Concat([i \in 1..Len(segments) |->
                        walk_segment(segments[i], 1,
                            [current_path |-> <<>>, prev_point |-> None, paths |-> <<>>],
                            geo.value, limit_dist, tan_a, max_depth_value)]))))

\* Part 1 of generate_vcarve_toolpath: the closed loops of the flat bottom.
wall_paths(polys, limit_dist, depth) ==
    LET closed(loop) == Bind(At3D(loop, -depth), LAMBDA p :
                            IF p # <<>> /\ p[1] # Last(p) THEN Append(p, p[1]) ELSE p)
        loops(poly) == SelectSeq(
                           <<closed(poly.outer)>> \o
                               [i \in 1..Len(poly.holes) |-> closed(poly.holes[i])],
                           LAMBDA p : Len(p) >= 2)
    IN  Bind(offset_polygon(polys, limit_dist), LAMBDA inner :
            IF ~inner.ok THEN <<>>
            ELSE Concat([i \in 1..Len(inner.value) |-> loops(inner.value[i])]))

RECURSIVE crease_all(_, _, _, _)
crease_all(polys, limit_dist, tan_a, max_depth_value) ==
    IF polys = <<>> THEN Ok(<<>>)
    ELSE Bind(crease_paths(Head(polys), limit_dist, tan_a, max_depth_value), LAMBDA r :
             IF ~r.ok THEN r
             ELSE Bind(crease_all(Tail(polys), limit_dist, tan_a, max_depth_value),
                       LAMBDA rest : IF ~rest.ok THEN rest ELSE Ok(r.value \o rest.value)))

\* generate_vcarve_toolpath
generate_vcarve_toolpath(polys, tool, max_depth) ==
    IF tool.tool_type.kind # "VBit"
    THEN Err(<<"V-carve", "requires", "a", "V-bit", "tool,", "but", "tool", "type", "is",
               tool.tool_type.kind>>)
    ELSE IF polys = <<>>
    THEN Err(<<"V-carve", "requires", "at", "least", "one", "polygon", "target">>)
    ELSE LET tan_a == tan_half(tool.tool_type.angle_degrees)
             max_depth_value == IF max_depth # None THEN unwrap(max_depth) ELSE F64Max
             limit_dist == IF max_depth # None THEN unwrap(max_depth) * tan_a ELSE F64Max
         IN  Bind(IF max_depth # None
                  THEN wall_paths(polys, limit_dist, unwrap(max_depth))
                  ELSE <<>>, LAMBDA walls :
             Bind(crease_all(polys, limit_dist, tan_a, max_depth_value), LAMBDA creases :
                 IF ~creases.ok THEN creases
                 ELSE IF walls \o creases.value = <<>>
                      THEN Err(<<"Straight", "skeleton", "produced", "no", "toolpaths.">>)
                      ELSE Ok(Toolpath(walls \o creases.value))))

\* ---------------------------------------------------------------- Project
ToolpathPass(tool_index, kind, toolpath) ==
    [tool_index |-> tool_index, kind |-> kind, toolpath |-> toolpath]

ToolpathArtifact(operation_index, toolpath, passes, generated_at_epoch_ms, warnings) ==
    [operation_index |-> operation_index, toolpath |-> toolpath, passes |-> passes,
     generated_at_epoch_ms |-> generated_at_epoch_ms, warnings |-> warnings,
     is_valid |-> TRUE]

Dirty == [kind |-> "Dirty"]

Ready(generated_at_epoch_ms, warning_count) ==
    [kind |-> "Ready", generated_at_epoch_ms |-> generated_at_epoch_ms,
     warning_count |-> warning_count]

Invalid(warnings) == [kind |-> "Invalid", warnings |-> warnings]

\* OperationState::dirty
dirty_state == [dirty |-> TRUE, artifact |-> None]

\* OperationState::status
status(state) ==
    IF state.dirty THEN Dirty
    ELSE IF state.artifact # None
         THEN LET artifact == unwrap(state.artifact)
              IN  IF artifact.is_valid
                  THEN Ready(artifact.generated_at_epoch_ms, Len(artifact.warnings))
                  ELSE Invalid(artifact.warnings)
         ELSE Dirty

ensure_operation_states_len(p) ==
    IF Len(p.operation_states) < Len(p.operations)
    THEN [p EXCEPT !.operation_states =
             @ \o [k \in 1..(Len(p.operations) - Len(p.operation_states)) |-> dirty_state]]
    ELSE p

ensure_operation_state(p, index) ==
    IF Len(p.operation_states) <= index THEN ensure_operation_states_len(p) ELSE p

\* add_operation that pushes the operation and no state for it.
add_operation_without_state(p, operation) ==
    [ensure_operation_states_len(p) EXCEPT !.operations = Append(@, operation)]

add_operation(p, operation) ==
    LET q == ensure_operation_states_len(p)
    IN  [q EXCEPT !.operations = Append(@, operation),
                  !.operation_states = Append(@, dirty_state)]

\* mark_operation_dirty that sets the flag and keeps the artifact.
mark_operation_dirty_keeps_artifact(p, index) ==
    LET q == ensure_operation_state(p, index)
    IN  IF Get(q.operation_states, index) # None
        THEN [q EXCEPT !.operation_states[index + 1].dirty = TRUE]
        ELSE q

mark_operation_dirty(p, index) ==
    LET q == ensure_operation_state(p, index)
    IN  IF Get(q.operation_states, index) # None
        THEN [q EXCEPT !.operation_states[index + 1] = dirty_state]
        ELSE q

\* update_operation, as [project, result].
update_operation(p, index, operation) ==
    IF Get(p.operations, index) = None
    THEN [project |-> p,
          result |-> Err(<<"invalid", "operation", "index", ToString(index)>>)]
    ELSE [project |-> mark_operation_dirty([p EXCEPT !.operations[index + 1] = operation],
                                           index),
          result |-> Ok(None)]

\* remove_operation that takes the operation out and leaves the states as
\* they are.
remove_operation_keeps_state(p, index) ==
    IF index >= Len(p.operations)
    THEN [project |-> p,
          result |-> Err(<<"invalid", "operation", "index", ToString(index)>>)]
    ELSE [project |-> [ensure_operation_states_len(p) EXCEPT
                          !.operations = RemoveAt(@, index + 1)],
          result |-> Ok(p.operations[index + 1])]

\* remove_operation, as [project, result]: the result is the removed operation.
remove_operation(p, index) ==
    IF index >= Len(p.operations)
    THEN [project |-> p,
          result |-> Err(<<"invalid", "operation", "index", ToString(index)>>)]
    ELSE [project |-> [ensure_operation_states_len(p) EXCEPT
                          !.operation_states = RemoveAt(@, index + 1),
                          !.operations = RemoveAt(@, index + 1)],
          result |-> Ok(p.operations[index + 1])]

\* attach_toolpath that stores the artifact and leaves the dirty flag as it was.
attach_toolpath_keeps_dirty(p, index, artifact) ==
    LET q == ensure_operation_state(p, index)
    IN  IF Get(q.operation_states, index) = None
        THEN [project |-> q,
              result |-> Err(<<"invalid", "operation", "index", ToString(index)>>)]
        ELSE [project |-> [q EXCEPT !.operation_states[index + 1].artifact = Some(artifact)],
              result |-> Ok(None)]

\* attach_toolpath, as [project, result].
attach_toolpath(p, index, artifact) ==
    LET q == ensure_operation_state(p, index)
    IN  IF Get(q.operation_states, index) = None
        THEN [project |-> q,
              result |-> Err(<<"invalid", "operation", "index", ToString(index)>>)]
        ELSE [project |-> [q EXCEPT !.operation_states[index + 1] =
                               [dirty |-> FALSE, artifact |-> Some(artifact)]],
              result |-> Ok(None)]

remove_toolpath_for_operation(p, index) ==
    LET q == ensure_operation_state(p, index)
    IN  IF Get(q.operation_states, index) = None THEN q
        ELSE [q EXCEPT !.operation_states[index + 1] = [artifact |-> None, dirty |-> TRUE]]

toolpath_for_operation(p, index) ==
    IF Get(p.operation_states, index) = None THEN None
    ELSE unwrap(Get(p.operation_states, index)).artifact

\* operations_with_status: the status of every operation, by index from 0.
operations_with_status(p) ==
    [k \in 1..Len(p.operations) |->
        IF Get(p.operation_states, k - 1) # None
        THEN status(unwrap(Get(p.operation_states, k - 1)))
        ELSE Dirty]

\* ------------------------------------------------------------ orchestrator
tool_not_found(tool_index) == Err(<<"Tool", ToString(tool_index), "not", "found">>)

\* generate_clearance_toolpath
RECURSIVE clearance_paths(_, _, _)
clearance_paths(polys, tool, depth) ==
    IF polys = <<>> THEN Ok(<<>>)
    ELSE Bind(generate_pocket_toolpath(Head(polys).outer, Head(polys).holes, tool, depth),
              LAMBDA r :
             IF ~r.ok THEN r
             ELSE Bind(clearance_paths(Tail(polys), tool, depth), LAMBDA rest :
                      IF ~rest.ok THEN rest ELSE Ok(r.value.paths \o rest.value)))

\* generate_clearance_toolpath that cuts at depth 1 whatever depth it is given.
generate_clearance_toolpath_at_one(polys, tool, depth) ==
    IF depth <= 0 THEN Err(<<"Clearance", "depth", "must", "be", "positive">>)
    ELSE Bind(clearance_paths(polys, tool, 1), LAMBDA r :
             IF ~r.ok THEN r ELSE Ok(Toolpath(r.value)))

generate_clearance_toolpath(polys, tool, depth) ==
    IF depth <= 0 THEN Err(<<"Clearance", "depth", "must", "be", "positive">>)
    ELSE Bind(clearance_paths(polys, tool, depth), LAMBDA r :
             IF ~r.ok THEN r ELSE Ok(Toolpath(r.value)))

\* The Profile arm of generate_toolpath_for_operation.
profile_arm(p, tools, operation_index, operation, epoch_ms) ==
    LET tool_slot == Get(tools, operation.tool_index)
        tool == unwrap(tool_slot)
    IN  Bind(first_polygon(p.shapes, operation.targets,
                           build_curve_transform_map(p.imported_svgs)), LAMBDA polygon :
        Bind(with_context(
                 generate_profile_toolpath(unwrap(polygon.value), tool, operation.cut_side,
                                           operation.target_depth),
                 <<"Profile", "operation", ToString(operation_index), "failed", "to",
                   "generate">>), LAMBDA toolpath :
            IF tool_slot = None THEN tool_not_found(operation.tool_index)
            ELSE IF ~polygon.ok THEN polygon
            ELSE IF polygon.value = None THEN Err(<<"Profile", "requires", "geometry">>)
            ELSE IF ~toolpath.ok THEN toolpath
            ELSE Ok([artifact |-> ToolpathArtifact(operation_index, toolpath.value,
                         <<ToolpathPass(operation.tool_index, "Finish", toolpath.value)>>,
                         epoch_ms, <<>>),
                     warnings |-> <<>>])))

\* The Pocket arm with the first listed curve as the outer boundary.
pocket_arm_first_outer(p, tools, operation_index, operation, epoch_ms) ==
    LET tool_slot == Get(tools, operation.tool_index)
        tool == unwrap(tool_slot)
        curve_transforms == build_curve_transform_map(p.imported_svgs)
    IN  Bind(flatten_curves(p.shapes, operation.target.curves, curve_transforms),
             LAMBDA polys :
        Bind(IF operation.target.kind = "Region"
             THEN resolve_region(p.shapes, operation.target.region, curve_transforms)
             ELSE IF ~polys.ok THEN polys
             ELSE IF polys.value = <<>>
                  THEN Err(<<"Pocket", "requires", "at", "least", "one", "closed", "curve">>)
                  ELSE Ok([outer |-> Head(polys.value), holes |-> Tail(polys.value)]),
             LAMBDA geometry :
        Bind(with_context(
                 generate_pocket_toolpath(geometry.value.outer, geometry.value.holes, tool,
                                          operation.target_depth),
                 <<"Pocket", "operation", ToString(operation_index), "failed">>),
             LAMBDA toolpath :
            IF tool_slot = None THEN tool_not_found(operation.tool_index)
            ELSE IF ~geometry.ok THEN geometry
            ELSE IF ~toolpath.ok THEN toolpath
            ELSE Ok([artifact |-> ToolpathArtifact(operation_index, toolpath.value,
                         <<ToolpathPass(operation.tool_index, "Finish", toolpath.value)>>,
                         epoch_ms, <<>>),
                     warnings |-> <<>>]))))

\* The Pocket arm.
pocket_arm(p, tools, operation_index, operation, epoch_ms) ==
    LET tool_slot == Get(tools, operation.tool_index)
        tool == unwrap(tool_slot)
        curve_transforms == build_curve_transform_map(p.imported_svgs)
    IN  Bind(flatten_curves(p.shapes, operation.target.curves, curve_transforms),
             LAMBDA polys :
        Bind(IF operation.target.kind = "Region"
             THEN resolve_region(p.shapes, operation.target.region, curve_transforms)
             ELSE IF ~polys.ok THEN polys
             ELSE IF polys.value = <<>>
                  THEN Err(<<"Pocket", "requires", "at", "least", "one", "closed", "curve">>)
                  ELSE Ok([outer |-> Last(polys.value),
                           holes |-> SubSeq(polys.value, 1, Len(polys.value) - 1)]),
             LAMBDA geometry :
        Bind(with_context(
                 generate_pocket_toolpath(geometry.value.outer, geometry.value.holes, tool,
                                          operation.target_depth),
                 <<"Pocket", "operation", ToString(operation_index), "failed">>),
             LAMBDA toolpath :
            IF tool_slot = None THEN tool_not_found(operation.tool_index)
            ELSE IF ~geometry.ok THEN geometry
            ELSE IF ~toolpath.ok THEN toolpath
            ELSE Ok([artifact |-> ToolpathArtifact(operation_index, toolpath.value,
                         <<ToolpathPass(operation.tool_index, "Finish", toolpath.value)>>,
                         epoch_ms, <<>>),
                     warnings |-> <<>>]))))

\* The clearance block of the V-carve arm, as Ok([passes, warnings]).
clearance_block(tools, operation_index, operation, tool, carve_polygons) ==
    LET clearance_index == unwrap(operation.clearance_tool_index)
        clearance_slot == Get(tools, clearance_index)
        clearance_tool == unwrap(clearance_slot)
        has_depth == operation.target_depth # None /\ unwrap(operation.target_depth) > 0
        clearance_depth == IF has_depth THEN unwrap(operation.target_depth) ELSE 1
        warnings == IF has_depth THEN <<>>
                    ELSE << <<"Clearance", "tool", "selected", "without", "a", "max",
                              "depth;", "defaulting", "to", "1mm.">> >>
        limit_dist == clearance_depth * tan_half(tool.tool_type.angle_degrees)
    IN  Bind(offset_polygon(carve_polygons, limit_dist), LAMBDA inner_polygons :
        Bind(with_context(
                 generate_clearance_toolpath(inner_polygons.value, clearance_tool,
                                             clearance_depth),
                 <<"Clearance", "toolpath", "for", "operation", ToString(operation_index),
                   "failed">>), LAMBDA clearance_toolpath :
            IF clearance_slot = None THEN tool_not_found(clearance_index)
            ELSE IF tool.tool_type.kind # "VBit"
            THEN Err(<<"V-carve", "operation", "requires", "a", "V-bit", "tool">>)
            ELSE IF ~inner_polygons.ok THEN inner_polygons
            ELSE IF ~clearance_toolpath.ok THEN clearance_toolpath
            ELSE Ok([passes |-> <<ToolpathPass(clearance_index, "Clearance",
                                               clearance_toolpath.value)>>,
                     warnings |-> warnings])))

\* The V-carve arm.
vcarve_arm(p, tools, operation_index, operation, epoch_ms) ==
    LET tool_slot == Get(tools, operation.tool_index)
        tool == unwrap(tool_slot)
    IN  Bind(collect_vcarve_polygons(p.shapes, operation.targets,
                                     build_curve_transform_map(p.imported_svgs)),
             LAMBDA carve_polygons :
        Bind(IF operation.clearance_tool_index # None
             THEN clearance_block(tools, operation_index, operation, tool,
                                  carve_polygons.value)
             ELSE Ok([passes |-> <<>>, warnings |-> <<>>]), LAMBDA clearance :
        Bind(with_context(
                 generate_vcarve_toolpath(carve_polygons.value, tool, operation.target_depth),
                 <<"V-carve", "operation", ToString(operation_index), "failed">>),
             LAMBDA finish_toolpath :
            IF tool_slot = None THEN tool_not_found(operation.tool_index)
            ELSE IF ~carve_polygons.ok THEN carve_polygons
            ELSE IF ~clearance.ok THEN clearance
            ELSE IF ~finish_toolpath.ok THEN finish_toolpath
            ELSE Ok([artifact |-> ToolpathArtifact(operation_index, finish_toolpath.value,
                         Append(clearance.value.passes,
                                ToolpathPass(operation.tool_index, "Finish",
                                             finish_toolpath.value)),
                         epoch_ms, clearance.value.warnings),
                     warnings |-> clearance.value.warnings]))))

\* generate_toolpath_for_operation; epoch_ms is what current_epoch_ms returns.
generate_toolpath_for_operation(p, tools, operation_index, operation, epoch_ms) ==
    CASE operation.kind = "Profile" ->
            profile_arm(p, tools, operation_index, operation, epoch_ms)
      [] operation.kind = "Pocket" ->
            pocket_arm(p, tools, operation_index, operation, epoch_ms)
      [] operation.kind = "VCarve" ->
            vcarve_arm(p, tools, operation_index, operation, epoch_ms)

ToolpathGenerationReport(operation_index, report_status, warnings, error) ==
    [operation_index |-> operation_index, status |-> report_status,
     warnings |-> warnings, error |-> error]

\* A pass that marks the operation dirty when its generation fails.
generate_step_marks_dirty(st, tools, index, epoch_ms) ==
    Bind(generate_toolpath_for_operation(st.project, tools, index,
                                         st.project.operations[index + 1], epoch_ms),
         LAMBDA r :
    Bind(attach_toolpath(st.project, index, r.value.artifact), LAMBDA attached :
        IF r.ok
        THEN [project |-> attached.project,
              reports |-> Append(st.reports,
                  ToolpathGenerationReport(index,
                      Ready(r.value.artifact.generated_at_epoch_ms, Len(r.value.warnings)),
                      r.value.warnings, None))]
        ELSE [project |-> mark_operation_dirty(st.project, index),
              reports |-> Append(st.reports,
                  ToolpathGenerationReport(index, Dirty, <<>>, Some(to_string(r))))]))

\* One pass of the loop of generate_toolpaths_for_operations, over
\* [project, reports].
generate_step(st, tools, index, epoch_ms) ==
    Bind(generate_toolpath_for_operation(st.project, tools, index,
                                         st.project.operations[index + 1], epoch_ms),
         LAMBDA r :
    Bind(attach_toolpath(st.project, index, r.value.artifact), LAMBDA attached :
        IF r.ok
        THEN IF ~attached.result.ok
             THEN [project |-> attached.project,
                   reports |-> Append(st.reports,
                       ToolpathGenerationReport(index, Dirty, <<>>,
                                                Some(to_string(attached.result))))]
             ELSE [project |-> attached.project,
                   reports |-> Append(st.reports,
                       ToolpathGenerationReport(index,
                           Ready(r.value.artifact.generated_at_epoch_ms,
                                 Len(r.value.warnings)),
                           r.value.warnings, None))]
        ELSE [project |-> st.project,
              reports |-> Append(st.reports,
                  ToolpathGenerationReport(index, Dirty, <<>>, Some(to_string(r))))]))

\* The call returns only if no operation's generation diverges.
generation_returns(p, tools) ==
    \A index \in 0..(Len(p.operations) - 1) :
        generate_toolpath_for_operation(p, tools, index, p.operations[index + 1], 0)
            # Diverges

\* generate_toolpaths_for_operations, as [project, reports]; clock[index] is
\* the reading of the system clock while operation index is generated.
RECURSIVE generate_from(_, _, _, _)
generate_from(st, tools, index, clock) ==
    IF index >= Len(st.project.operations) THEN st
    ELSE generate_from(generate_step(st, tools, index, clock[index]), tools, index + 1, clock)

\* A loop that returns at the first operation that fails.
RECURSIVE generate_until_failure_from(_, _, _, _)
generate_until_failure_from(st, tools, index, clock) ==
    IF index >= Len(st.project.operations) THEN st
    ELSE IF st.reports # <<>> /\ Last(st.reports).error # None THEN st
    ELSE generate_until_failure_from(generate_step(st, tools, index, clock[index]),
                                     tools, index + 1, clock)

generate_until_failure(p, tools, clock) ==
    generate_until_failure_from([project |-> p, reports |-> <<>>], tools, 0, clock)

generate_toolpaths_for_operations(p, tools, clock) ==
    generate_from([project |-> p, reports |-> <<>>], tools, 0, clock)

\* ------------------------------------------------------------ the program
\* project, tools: the Project and the ToolLibrary. reports: what the last
\* generate_toolpaths_for_operations returned. pocket: the frame of a running
\* generate_pocket_toolpath. post: a call of post_process_grbl and its result.
\* call: one call of a function of the library, its arguments and its result.
\* host: the GUI application: its open project, its flags, the project files
\* on disk and the dialog tasks in flight.
VARIABLES project, tools, reports, pocket, post, call, host

vars == <<project, tools, reports, pocket, post, call, host>>

\* ShapeRegistry: the maps of curves and of regions by id.
remove_curve(shapes, id) ==
    [shapes EXCEPT !.curves = [k \in DOMAIN shapes.curves \ {id} |-> shapes.curves[k]]]

\* get_curve_mut followed by a write through the reference it returns.
get_curve_mut(shapes, id, curve) ==
    IF id \in DOMAIN shapes.curves THEN [shapes EXCEPT !.curves[id] = curve] ELSE shapes

remove_region(shapes, id) ==
    [shapes EXCEPT !.regions = [k \in DOMAIN shapes.regions \ {id} |-> shapes.regions[k]]]

\* ToolLibrary
update_tool(library, index, tool) ==
    IF Get(library, index) = None THEN library ELSE [library EXCEPT ![index + 1] = tool]

remove_tool(library, index) ==
    IF index >= Len(library) THEN library ELSE RemoveAt(library, index + 1)

\* The catalogue the inputs are drawn from. Curve 1 is the outline the user
\* edits and removes; curve 2, the island, stays as imported.
CurveIds == {1}

RegionIds == {1}

EndmillTool == Tool(2, 50, Endmill(2))

VBitTool == Tool(2, 50, VBit(90))

ToolCatalog == {EndmillTool, VBitTool}

CurveCatalog == {BoxPath(1, 5)}

OperationCatalog ==
    {Pocket(1, 0, Region(1)),
     Profile(1, "Outside", 0, Curves(<<2>>)),
     VCarve(None, 1, Curves(<<1>>), Some(0)),
     VCarve(Some(1), 1, Curves(<<1>>), None)}

Clock == 0..MaxClock

\* A new project, after two curves were drawn, a region made of them, the
\* second curve's import moved by one to the right, and two tools stored.
Init ==
    /\ project = [shapes |-> [curves |-> (1 :> BoxPath(0, 6)) @@ (2 :> BoxPath(2, 4)),
                              regions |-> (1 :> [outer |-> 1, holes |-> <<2>>])],
                  imported_svgs |-> <<[curve_ids |-> <<2>>, transform |-> 1]>>,
                  stock |-> [width |-> 10, height |-> 10, thickness |-> 1],
                  operations |-> <<>>,
                  operation_states |-> <<>>]
    /\ tools = <<EndmillTool, VBitTool>>
    /\ reports = <<>>
    /\ pocket = None
    /\ post = None
    /\ call = None
    /\ host = None

AddOperation(operation) ==
    /\ Len(project.operations) < MaxOps
    /\ project' = add_operation(project, operation)
    /\ reports' = <<>>
    /\ UNCHANGED <<tools, pocket, post, call, host>>

UpdateOperation(index, operation) ==
    /\ project' = update_operation(project, index, operation).project
    /\ reports' = <<>>
    /\ UNCHANGED <<tools, pocket, post, call, host>>

RemoveOperation(index) ==
    /\ project' = remove_operation(project, index).project
    /\ reports' = <<>>
    /\ UNCHANGED <<tools, pocket, post, call, host>>

MarkOperationDirty(index) ==
    /\ project' = mark_operation_dirty(project, index)
    /\ reports' = <<>>
    /\ UNCHANGED <<tools, pocket, post, call, host>>

RemoveToolpathForOperation(index) ==
    /\ project' = remove_toolpath_for_operation(project, index)
    /\ reports' = <<>>
    /\ UNCHANGED <<tools, pocket, post, call, host>>

\* attach_toolpath called with an artifact made for the operation at index.
AttachToolpath(index) ==
    /\ project' = attach_toolpath(project, index,
                       ToolpathArtifact(index, Toolpath(<<>>), <<>>, 0, <<>>)).project
    /\ reports' = <<>>
    /\ UNCHANGED <<tools, pocket, post, call, host>>

RemoveCurve(id) ==
    /\ project' = [project EXCEPT !.shapes = remove_curve(@, id)]
    /\ reports' = <<>>
    /\ UNCHANGED <<tools, pocket, post, call, host>>

GetCurveMut(id, curve) ==
    /\ project' = [project EXCEPT !.shapes = get_curve_mut(@, id, curve)]
    /\ reports' = <<>>
    /\ UNCHANGED <<tools, pocket, post, call, host>>

RemoveRegion(id) ==
    /\ project' = [project EXCEPT !.shapes = remove_region(@, id)]
    /\ reports' = <<>>
    /\ UNCHANGED <<tools, pocket, post, call, host>>

UpdateTool(index, tool) ==
    /\ tools' = update_tool(tools, index, tool)
    /\ reports' = <<>>
    /\ UNCHANGED <<project, pocket, post, call, host>>

RemoveTool(index) ==
    /\ tools' = remove_tool(tools, index)
    /\ reports' = <<>>
    /\ UNCHANGED <<project, pocket, post, call, host>>

\* generate_toolpaths_for_operations, when it returns.
GenerateToolpaths ==
    /\ generation_returns(project, tools)
    /\ \E clock \in [0..(Len(project.operations) - 1) -> Clock] :
          \E result \in {generate_toolpaths_for_operations(project, tools, clock)} :
              /\ project' = result.project
              /\ reports' = result.reports
    /\ UNCHANGED <<tools, pocket, post, call, host>>

Next ==
    \/ \E operation \in OperationCatalog : AddOperation(operation)
    \/ \E index \in 0..(MaxOps - 1), operation \in OperationCatalog :
          UpdateOperation(index, operation)
    \/ \E index \in 0..(MaxOps - 1) : RemoveOperation(index)
    \/ \E index \in 0..(MaxOps - 1) : MarkOperationDirty(index)
    \/ \E index \in 0..(MaxOps - 1) : RemoveToolpathForOperation(index)
    \/ \E index \in 0..(MaxOps - 1) : AttachToolpath(index)
    \/ \E id \in CurveIds : RemoveCurve(id)
    \/ \E id \in CurveIds, curve \in CurveCatalog : GetCurveMut(id, curve)
    \/ \E id \in RegionIds : RemoveRegion(id)
    \/ \E index \in 0..1, tool \in ToolCatalog : UpdateTool(index, tool)
    \/ \E index \in 0..1 : RemoveTool(index)
    \/ GenerateToolpaths

Spec == Init /\ [][Next]_vars

\* ------------------------------------------- generate_pocket_toolpath, run
\* The rings the frame records; a run that never ends records no more.
MaxRings == 6

PocketOuters == {Ring(<<0, 10>>), Ring(<<0, 4>>), Ring(<<3, 3>>)}

PocketIslands ==
    {<<>>, <<Ring(<<4, 5>>)>>, <<Ring(<<0, 10>>)>>, <<Ring(<<1, 2>>), Ring(<<6, 7>>)>>}

\* What the tool form stores: a positive diameter (parse_positive) and a
\* stepover of 0 to 100 percent, both ends included (parse_fraction).
StorableTools == {Tool(d, f, Endmill(d)) : d \in {2, 4}, f \in {0, 50, 100}}

PocketDepths == {1, 2}

empty_project ==
    [shapes |-> [curves |-> <<>>, regions |-> <<>>], imported_svgs |-> <<>>,
     stock |-> [width |-> 10, height |-> 10, thickness |-> 1],
     operations |-> <<>>, operation_states |-> <<>>]

\* A call of generate_pocket_toolpath is entered.
InitPocket ==
    /\ \E outer_boundary \in PocketOuters, islands \in PocketIslands,
          tool \in StorableTools \cup {Tool(4, 25, Endmill(4))},
          target_depth \in PocketDepths :
          pocket = [pc |-> "entry", outer_boundary |-> outer_boundary, islands |-> islands,
                    tool |-> tool, target_depth |-> target_depth, stepover_dist |-> 0,
                    current_pocket |-> {}, offset_result |-> {}, pocket_paths |-> <<>>,
                    result |-> None]
    /\ project = empty_project
    /\ tools = <<>>
    /\ reports = <<>>
    /\ post = None
    /\ call = None
    /\ host = None

\* Steps 1 to 3: the stepover distance and the region to clear.
PocketEnter ==
    /\ pocket.pc = "entry"
    /\ pocket' = [pocket EXCEPT !.pc = "loop",
                                !.stepover_dist = stepover_dist(pocket.tool),
                                !.current_pocket =
                                    pocket_region(pocket.outer_boundary, pocket.islands)]
    /\ UNCHANGED <<project, tools, reports, post, call, host>>

\* Step 4, first half of a pass: the region is deflated.
PocketInflate ==
    /\ pocket.pc = "loop"
    /\ pocket' = [pocket EXCEPT !.pc = "inflated",
                                !.offset_result =
                                    inflate(pocket.current_pocket, -pocket.stepover_dist)]
    /\ UNCHANGED <<project, tools, reports, post, call, host>>

\* Step 4, second half: the loop is left when nothing remains; otherwise the
\* rings are recorded and the deflated region is the next one to deflate.
PocketCollect ==
    /\ pocket.pc = "inflated"
    /\ \E rings \in {polygons(pocket.offset_result)} :
          \E found \in {pocket.pocket_paths
                            \o SelectSeq(Concat(rings), LAMBDA p : p # <<>>)} :
             pocket' =
                 IF rings = <<>> THEN [pocket EXCEPT !.pc = "convert"]
                 ELSE [pocket EXCEPT
                          !.pc = "loop",
                          !.current_pocket = pocket.offset_result,
                          !.pocket_paths =
                              SubSeq(found, 1,
                                     IF Len(found) < MaxRings THEN Len(found)
                                     ELSE MaxRings)]
    /\ UNCHANGED <<project, tools, reports, post, call, host>>

\* Steps 5 and 6: the 3D paths are returned.
PocketReturn ==
    /\ pocket.pc = "convert"
    /\ pocket' = [pocket EXCEPT !.pc = "done",
                                !.result = Some(pocket_result(pocket.pocket_paths,
                                                              pocket.target_depth))]
    /\ UNCHANGED <<project, tools, reports, post, call, host>>

NextPocket == PocketEnter \/ PocketInflate \/ PocketCollect \/ PocketReturn

\* The call runs on a thread that is never suspended for good: a step that
\* can be taken is taken.
SpecPocket == InitPocket /\ [][NextPocket]_vars /\ WF_vars(NextPocket)

\* -------------------------------------------------------- post_process_grbl
\* The most paths of a toolpath and the most vertices of a path.
MaxPaths == 2
MaxLen == 3

\* "{:.4}" of a whole number of millimetres.
Fmt4(v) == IF v < 0 THEN "-" \o ToString(-v) \o ".0000" ELSE ToString(v) \o ".0000"

\* A word of a G-code line: its letter and its number as text.
Word(letter, text) == <<letter, text>>

\* A header that does not raise the tool.
Header_without_safe_z == << <<Word("G", "90")>>, <<Word("G", "21")>>, <<Word("G", "17")>> >>

Header ==
    << <<Word("G", "90")>>, <<Word("G", "21")>>, <<Word("G", "17")>>,
       <<Word("G", "0"), Word("Z", "10.0")>> >>

\* The lines of one path that is not empty.
path_lines_without_retract(path) ==
    << <<Word("G", "0"), Word("X", Fmt4(path[1][1])), Word("Y", Fmt4(path[1][2]))>>,
       <<Word("G", "1"), Word("Z", Fmt4(path[1][3])), Word("F", "100")>> >>
      \o [i \in 1..(Len(path) - 1) |->
             <<Word("G", "1"), Word("X", Fmt4(path[i + 1][1])),
               Word("Y", Fmt4(path[i + 1][2]))>>]

path_lines(path) ==
    << <<Word("G", "0"), Word("X", Fmt4(path[1][1])), Word("Y", Fmt4(path[1][2]))>>,
       <<Word("G", "1"), Word("Z", Fmt4(path[1][3])), Word("F", "100")>> >>
      \o [i \in 1..(Len(path) - 1) |->
             <<Word("G", "1"), Word("X", Fmt4(path[i + 1][1])),
               Word("Y", Fmt4(path[i + 1][2]))>>]
      \o << <<Word("G", "0"), Word("Z", "10.0")>> >>

post_process_grbl(toolpath) ==
    [lines |-> Header \o Concat([i \in 1..Len(toolpath.paths) |->
                   IF toolpath.paths[i] = <<>> THEN <<>>
                   ELSE path_lines(toolpath.paths[i])])]

PostVertices == {<<0, 0, -1>>, <<6, 4, -2>>}

RECURSIVE SeqsUpTo(_, _)
SeqsUpTo(S, n) ==
    IF n = 0 THEN {<<>>}
    ELSE LET shorter == SeqsUpTo(S, n - 1)
         IN  shorter \cup {Append(q, x) : q \in shorter, x \in S}

\* A toolpath is handed to the post-processor.
InitPost ==
    /\ \E paths \in SeqsUpTo(SeqsUpTo(PostVertices, MaxLen), MaxPaths) :
          post = [toolpath |-> Toolpath(paths), gcode |-> None]
    /\ project = empty_project
    /\ tools = <<>>
    /\ reports = <<>>
    /\ pocket = None
    /\ call = None
    /\ host = None

PostProcess ==
    /\ post.gcode = None
    /\ post' = [post EXCEPT !.gcode = Some(post_process_grbl(post.toolpath))]
    /\ UNCHANGED <<project, tools, reports, pocket, call, host>>

NextPost == PostProcess

SpecPost == InitPost /\ [][NextPost]_vars

\* ------------------------------------------------------ an opened project
\* The curves and regions a stored project may hold: an outline, an island
\* inside it, a straight line, a line of no length; the outline with its
\* island, and the line alone.
StoredCurves ==
    (1 :> BoxPath(0, 8)) @@ (2 :> BoxPath(2, 4)) @@ (3 :> Line(<<2, 0>>, <<2, SectionHeight>>))
        @@ (4 :> Line(<<2, 0>>, <<2, 0>>))

StoredRegions ==
    (1 :> [outer |-> 1, holes |-> <<2>>]) @@ (2 :> [outer |-> 3, holes |-> <<>>])

\* The operations a stored project may hold; tool 2 is not in the library.
StoredOperations ==
    LET targets == {Curves(<<1>>), Curves(<<1, 2>>), Curves(<<2, 1>>), Curves(<<3>>),
                    Curves(<<1, 4>>), Curves(<<4>>), Curves(<<>>), Region(1), Region(2)}
    IN  {Profile(1, "Outside", t, g) : t \in {0, 2}, g \in targets}
            \cup {Pocket(1, t, g) : t \in {0, 2}, g \in targets}
            \cup {VCarve(d, t, g, c) : d \in {None, Some(0), Some(1), Some(2)},
                                      t \in {1, 2}, g \in targets,
                                      c \in {None, Some(0), Some(2)}}

\* A project as load_from_path returns it, with the tool library of the
\* session: curves and regions may have been removed since the operation was
\* stored, and the file may hold no operation_states.
InitOpened ==
    /\ \E curve_ids \in {{1, 2, 3}, {1, 2}, {1, 3}, {1, 4}, {2, 3}, {3}},
          region_ids \in {{1, 2}, {2}, {}},
          operation \in StoredOperations,
          operation_states \in {<<>>, <<dirty_state>>} :
          project = [shapes |-> [curves |-> [id \in curve_ids |-> StoredCurves[id]],
                                 regions |-> [id \in region_ids |-> StoredRegions[id]]],
                     imported_svgs |-> <<>>,
                     stock |-> [width |-> 10, height |-> 10, thickness |-> 1],
                     operations |-> <<operation>>,
                     operation_states |-> operation_states]
    /\ tools = <<EndmillTool, VBitTool>>
    /\ reports = <<>>
    /\ pocket = None
    /\ post = None
    /\ call = None
    /\ host = None

\* The preview of the GUI asks for the loops of an operation.
PolygonsForOperation(index) ==
    /\ call = None
    /\ call' = [fn |-> "polygons_for_operation", index |-> index,
                result |-> polygons_for_operation(project, index)]
    /\ UNCHANGED <<project, tools, reports, pocket, post, host>>

NextOpened ==
    \/ GenerateToolpaths
    \/ \E index \in 0..1 : PolygonsForOperation(index)

SpecOpened == InitOpened /\ [][NextOpened]_vars

\* ----------------------------------------------------------- SVG import
\* HashMap::keys: the orders in which the iteration may visit the keys.
RECURSIVE keys(_)
keys(ids) ==
    IF ids = {} THEN {<<>>}
    ELSE UNION {{<<id>> \o rest : rest \in keys(ids \ {id})} : id \in ids}

\* import_usvg_group over the path nodes of the tree, in document order: a
\* visible path that is not empty becomes a curve and a shape under new ids
\* (CurveId::new, ShapeId::new: ids no map holds yet).
RECURSIVE import_usvg_group(_, _)
import_usvg_group(registry, nodes) ==
    IF nodes = <<>> THEN registry
    ELSE IF ~Head(nodes).visible \/ Head(nodes).elements = <<>>
    THEN import_usvg_group(registry, Tail(nodes))
    ELSE import_usvg_group(
             [registry EXCEPT
                 !.curves = @ @@ (SetMax(DOMAIN @ \cup {0}) + 1 :> BezPath(Head(nodes).elements)),
                 !.shapes = @ @@ (SetMax(DOMAIN @ \cup {0}) + 1 :>
                                     [kind |-> "Curve",
                                      curve |-> SetMax(DOMAIN registry.curves \cup {0}) + 1])],
             Tail(nodes))

\* ShapeRegistry::import_svg, as [registry, result]; svg is None for a file
\* that cannot be read or parsed; shape_keys and curve_keys are the orders
\* in which the two maps are iterated after the import.
import_svg(registry, svg, shape_keys, curve_keys) ==
    IF svg = None
    THEN [registry |-> registry, result |-> Err(<<"Failed", "to", "read", "SVG">>)]
    ELSE [registry |-> import_usvg_group(registry, unwrap(svg)),
          result |-> Ok([shape_ids |-> SubSeq(shape_keys, Cardinality(DOMAIN registry.shapes) + 1,
                                              Len(shape_keys)),
                         curve_ids |-> SubSeq(curve_keys, Cardinality(DOMAIN registry.curves) + 1,
                                              Len(curve_keys)),
                         region_ids |-> <<>>])]

\* Project::import_svg, as [project, batch, result]: batch is what the
\* registry returned, result the SvgImport that was recorded.
project_import_svg(p, svg, shape_keys, curve_keys) ==
    Bind(import_svg(p.shapes, svg, shape_keys, curve_keys), LAMBDA imported :
        IF ~imported.result.ok
        THEN [project |-> p, batch |-> imported.result,
              result |-> with_context(imported.result, <<"import", "svg">>)]
        ELSE Bind([shape_ids |-> imported.result.value.shape_ids,
                   curve_ids |-> imported.result.value.curve_ids,
                   region_ids |-> imported.result.value.region_ids], LAMBDA import :
                 [project |-> [p EXCEPT !.shapes = imported.registry,
                                        !.imported_svgs = Append(@, import)],
                  batch |-> imported.result,
                  result |-> Ok(import)]))

\* --------------------------------------------------------- project files
\* save_to_path: the JSON text, as the record of its members in the order
\* they are written. A HashMap is written as the list of its entries in the
\* order the map is iterated (shape_keys, curve_keys, region_keys); the time
\* stamp of touch_updated_timestamp is left out.
save_to_path(p, shape_keys, curve_keys, region_keys) ==
    [stock |-> p.stock,
     shapes |-> [shapes |-> [i \in 1..Len(shape_keys) |->
                                <<shape_keys[i], p.shapes.shapes[shape_keys[i]]>>],
                 curves |-> [i \in 1..Len(curve_keys) |->
                                <<curve_keys[i], p.shapes.curves[curve_keys[i]]>>],
                 regions |-> [i \in 1..Len(region_keys) |->
                                 <<region_keys[i], p.shapes.regions[region_keys[i]]>>]],
     imported_svgs |-> p.imported_svgs,
     operations |-> p.operations,
     operation_states |-> Some(p.operation_states)]

\* load_from_path: file is None when it cannot be read; a map is built from
\* the entries of the text; operation_states is empty when the text has no
\* such member (serde default).
load_from_path(file) ==
    LET map(entries) ==
            [id \in {entries[i][1] : i \in 1..Len(entries)} |->
                entries[SetMax({i \in 1..Len(entries) : entries[i][1] = id})][2]]
    IN  IF file = None THEN Err(<<"read", "project", "file">>)
        ELSE Ok([shapes |-> [shapes |-> map(unwrap(file).shapes.shapes),
                             curves |-> map(unwrap(file).shapes.curves),
                             regions |-> map(unwrap(file).shapes.regions)],
                 imported_svgs |-> unwrap(file).imported_svgs,
                 stock |-> unwrap(file).stock,
                 operations |-> unwrap(file).operations,
                 operation_states |->
                     IF unwrap(file).operation_states = None THEN <<>>
                     ELSE unwrap(unwrap(file).operation_states)])

\* sync_operation_states that leaves the vector as it was loaded.
sync_operation_states_skipped(p) == p

sync_operation_states(p) == ensure_operation_states_len(p)

\* ------------------------------------------------- one call of the library
\* call: a call of one function of the library, its arguments and, once it
\* has returned, its result.
\* What the operation form stores as max depth: nothing or a positive number
\* (parse_optional_positive).
StorableMaxDepths == {None, Some(1), Some(2), Some(3)}

InitCall ==
    /\ \/ \E polys \in SeqsUpTo({CarvePolygon(outer, holes) :
                                    outer \in {Ring(<<0, 6>>), Ring(<<0, 10>>), Ring(<<2, 3>>)},
                                    holes \in {<<>>, <<Ring(<<4, 6>>)>>}}, 2),
             tool \in {EndmillTool, VBitTool}, max_depth \in StorableMaxDepths :
             call = [fn |-> "generate_vcarve_toolpath", polygons |-> polys, tool |-> tool,
                     max_depth |-> max_depth, result |-> None]
       \/ \E held \in 0..2,
             svg \in {None} \cup {Some(nodes) : nodes \in SeqsUpTo(
                         {[visible |-> TRUE, elements |-> BoxPath(0, 6).elements],
                          [visible |-> FALSE, elements |-> BoxPath(0, 6).elements],
                          [visible |-> TRUE, elements |-> <<>>]}, 2)} :
             call = [fn |-> "import_svg",
                     project |-> [empty_project EXCEPT
                         !.shapes = [shapes |-> [id \in 1..held |->
                                                    [kind |-> "Curve", curve |-> id]],
                                     curves |-> [id \in 1..held |-> BoxPath(id, id + 4)],
                                     regions |-> <<>>]],
                     svg |-> svg, result |-> None]
       \/ \E input_poly \in {Ring(<<0, 6>>), Ring(<<2, 4>>), Ring(<<3, 3>>), <<>>},
             tool \in StorableTools, cut_side \in {"Outside", "Inside", "OnLine"},
             target_depth \in PocketDepths :
             call = [fn |-> "generate_profile_toolpath", input_poly |-> input_poly,
                     tool |-> tool, cut_side |-> cut_side, target_depth |-> target_depth,
                     result |-> None]
       \/ \E segment \in SeqsUpTo({<<x, SkeletonY>> : x \in 0..6}, MaxLen),
             max_depth \in StorableMaxDepths :
             call = [fn |-> "walk_segment", segment |-> segment,
                     poly |-> CarvePolygon(Ring(<<0, 6>>), <<>>), tool |-> VBitTool,
                     max_depth |-> max_depth, result |-> None]
       \/ call = [fn |-> "load_from_path", file |-> None, result |-> None,
                  synced |-> FALSE, saved |-> None]
       \/ \E curve_ids \in {{}, {1}, {1, 2}, {1, 2, 3}}, region_ids \in {{}, {1}, {1, 2}},
             operations \in SeqsUpTo({Pocket(1, 0, Region(1)),
                                      VCarve(None, 1, Curves(<<1>>), Some(0))}, 2),
             written \in {"states", "artifact", "no states"} :
             \E curve_keys \in keys(curve_ids), region_keys \in keys(region_ids) :
                call = [fn |-> "load_from_path",
                        file |-> Some([save_to_path(
                            [shapes |-> [shapes |-> <<>>, curves |-> StoredCurves,
                                         regions |-> StoredRegions],
                             imported_svgs |-> <<>>,
                             stock |-> [width |-> 10, height |-> 10, thickness |-> 1],
                             operations |-> operations,
                             operation_states |->
                                 [k \in 1..Len(operations) |->
                                     IF written = "artifact" /\ k = 1
                                     THEN [dirty |-> FALSE,
                                           artifact |-> Some(ToolpathArtifact(
                                               0, Toolpath(<<>>), <<>>, 0, <<>>))]
                                     ELSE dirty_state]],
                            <<>>, curve_keys, region_keys)
                          EXCEPT !.operation_states =
                                     IF written = "no states" THEN None ELSE @]),
                        result |-> None, synced |-> FALSE, saved |-> None]
    /\ project = empty_project
    /\ tools = <<>>
    /\ reports = <<>>
    /\ pocket = None
    /\ post = None
    /\ host = None

GenerateVCarve ==
    /\ call.fn = "generate_vcarve_toolpath"
    /\ call.result = None
    /\ call' = [call EXCEPT !.result =
                    Some(generate_vcarve_toolpath(call.polygons, call.tool, call.max_depth))]
    /\ UNCHANGED <<project, tools, reports, pocket, post, host>>

\* Project::import_svg; the iteration orders of the two maps are not fixed.
ImportSvg ==
    /\ call.fn = "import_svg"
    /\ call.result = None
    /\ \E after \in {import_usvg_group(call.project.shapes,
                                        IF call.svg = None THEN <<>> ELSE unwrap(call.svg))} :
          \E shape_keys \in keys(DOMAIN after.shapes), curve_keys \in keys(DOMAIN after.curves) :
             call' = [call EXCEPT !.result =
                         Some(project_import_svg(call.project, call.svg,
                                                 shape_keys, curve_keys))]
    /\ UNCHANGED <<project, tools, reports, pocket, post, host>>

\* A project file is opened.
LoadFromPath ==
    /\ call.fn = "load_from_path"
    /\ call.result = None
    /\ call' = [call EXCEPT !.result = Some(load_from_path(call.file))]
    /\ UNCHANGED <<project, tools, reports, pocket, post, host>>

\* The opened project is brought in step with its operations.
SyncOperationStates ==
    /\ call.fn = "load_from_path"
    /\ call.result # None
    /\ unwrap(call.result).ok
    /\ call.saved = None
    /\ call' = [call EXCEPT
                    !.result = Some(Ok(sync_operation_states(unwrap(call.result).value))),
                    !.synced = TRUE]
    /\ UNCHANGED <<project, tools, reports, pocket, post, host>>

\* The opened project is saved; the iteration orders of its maps are not fixed.
SaveToPath ==
    /\ call.fn = "load_from_path"
    /\ call.result # None
    /\ unwrap(call.result).ok
    /\ call.saved = None
    /\ \E p \in {unwrap(call.result).value} :
          \E shape_keys \in keys(DOMAIN p.shapes.shapes),
             curve_keys \in keys(DOMAIN p.shapes.curves),
             region_keys \in keys(DOMAIN p.shapes.regions) :
             call' = [call EXCEPT !.saved =
                         Some(save_to_path(p, shape_keys, curve_keys, region_keys))]
    /\ UNCHANGED <<project, tools, reports, pocket, post, host>>

GenerateProfile ==
    /\ call.fn = "generate_profile_toolpath"
    /\ call.result = None
    /\ call' = [call EXCEPT !.result =
                    Some(generate_profile_toolpath(call.input_poly, call.tool, call.cut_side,
                                                   call.target_depth))]
    /\ UNCHANGED <<project, tools, reports, pocket, post, host>>

\* The walk of generate_vcarve_toolpath along one skeleton segment of one
\* polygon; a segment of fewer than two coordinates is skipped.
WalkSegment ==
    /\ call.fn = "walk_segment"
    /\ call.result = None
    /\ \E tan_a \in {tan_half(call.tool.tool_type.angle_degrees)} :
          call' = [call EXCEPT !.result = Some(
              IF Len(call.segment) < 2 THEN <<>>
              ELSE walk_segment(call.segment, 1,
                       [current_path |-> <<>>, prev_point |-> None, paths |-> <<>>],
                       build_geo_polygon(simplify_carve_polygon(call.poly)).value,
                       IF call.max_depth # None THEN unwrap(call.max_depth) * tan_a
                       ELSE F64Max,
                       tan_a,
                       IF call.max_depth # None THEN unwrap(call.max_depth) ELSE F64Max))]
    /\ UNCHANGED <<project, tools, reports, pocket, post, host>>

NextCall ==
    \/ GenerateVCarve
    \/ WalkSegment
    \/ GenerateProfile
    \/ ImportSvg
    \/ LoadFromPath
    \/ SyncOperationStates
    \/ SaveToPath

SpecCall == InitCall /\ [][NextCall]_vars

\* ------------------------------------------------------------ the GUI host
\* The project files the dialogs can pick and the SVG files: one that cannot
\* be parsed and one with a single closed path.
HostPaths == {"A.rcproj", "B.rcproj"}

SvgFiles ==
    ("bad.svg" :> None)
        @@ ("box.svg" :> Some(<<[visible |-> TRUE, elements |-> BoxPath(0, 6).elements]>>))

\* The most operations and the most imports the open project takes.
MaxEdits == 1

\* Project::new
new_project ==
    [shapes |-> [shapes |-> <<>>, curves |-> <<>>, regions |-> <<>>],
     imported_svgs |-> <<>>,
     stock |-> [width |-> 10, height |-> 10, thickness |-> 1],
     operations |-> <<>>, operation_states |-> <<>>]

\* OpenProject::new
OpenProject(path, data) ==
    [path |-> path, data |-> sync_operation_states(data), imports |-> data.imported_svgs]

\* OpenProject::save: the texts save_to_path may write, one for every
\* iteration order of the maps.
save(data) ==
    {save_to_path(data, shape_keys, curve_keys, region_keys) :
        shape_keys \in keys(DOMAIN data.shapes.shapes),
        curve_keys \in keys(DOMAIN data.shapes.curves),
        region_keys \in keys(DOMAIN data.shapes.regions)}

load_project_from_path(disk, path) ==
    Bind(load_from_path(disk[path]), LAMBDA loaded :
        IF loaded.ok THEN Ok(OpenProject(path, loaded.value)) ELSE Err(<<"Io">>))

\* App::handle_project_loaded
handle_project_loaded(app, result) ==
    IF result.ok THEN [app EXCEPT !.project = Some(result.value)] ELSE app

\* App::new: no project, or the default project when its file exists; here
\* both project files exist, as create_new_project wrote them.
InitHost ==
    /\ \E file \in save(new_project), opened \in {FALSE, TRUE} :
          host = [project |-> IF opened
                              THEN Some(load_project_from_path(
                                            [path \in HostPaths |-> Some(file)],
                                            "A.rcproj").value)
                              ELSE None,
                  opening_dialog |-> FALSE, importing_svg |-> FALSE,
                  disk |-> [path \in HostPaths |-> Some(file)],
                  open_task |-> None, import_task |-> None]
    /\ project = empty_project
    /\ tools = <<>>
    /\ reports = <<>>
    /\ pocket = None
    /\ post = None
    /\ call = None

\* Message::OpenProjectDialog
OpenProjectDialog ==
    /\ ~host.opening_dialog
    /\ host' = [host EXCEPT !.opening_dialog = TRUE, !.open_task = Some([pc |-> "dialog"])]
    /\ UNCHANGED <<project, tools, reports, pocket, post, call>>

\* open_project_dialog: the dialog is closed, or a file is picked and loaded.
OpenDialogReturns ==
    /\ host.open_task = Some([pc |-> "dialog"])
    /\ \E result \in {Err(<<"DialogClosed">>)}
                        \cup {load_project_from_path(host.disk, path) : path \in HostPaths} :
          host' = [host EXCEPT !.open_task = Some([pc |-> "done", result |-> result])]
    /\ UNCHANGED <<project, tools, reports, pocket, post, call>>

\* Message::ProjectPicked
ProjectPicked ==
    /\ host.open_task # None
    /\ unwrap(host.open_task).pc = "done"
    /\ host' = [handle_project_loaded([host EXCEPT !.opening_dialog = FALSE],
                                      unwrap(host.open_task).result)
                  EXCEPT !.open_task = None]
    /\ UNCHANGED <<project, tools, reports, pocket, post, call>>

\* Message::ImportSvg: the task takes the path of the open project with it.
\* (Bound: neither the open project nor its file holds MaxEdits imports yet.)
HostImportSvg ==
    /\ ~(host.importing_svg \/ host.project = None)
    /\ Len(unwrap(host.project).data.imported_svgs) < MaxEdits
    /\ Len(unwrap(host.disk[unwrap(host.project).path]).imported_svgs) < MaxEdits
    /\ host' = [host EXCEPT
                   !.importing_svg = TRUE,
                   !.import_task = Some([pc |-> "dialog",
                                         project_path |-> unwrap(host.project).path])]
    /\ UNCHANGED <<project, tools, reports, pocket, post, call>>

\* import_svg_dialog: the dialog is closed, or an SVG file is picked.
ImportDialogReturns ==
    /\ host.import_task # None
    /\ unwrap(host.import_task).pc = "dialog"
    /\ \/ host' = [host EXCEPT !.import_task =
                      Some([pc |-> "done", result |-> Err(<<"DialogClosed">>)])]
       \/ \E svg_path \in DOMAIN SvgFiles :
             host' = [host EXCEPT !.import_task =
                         Some([pc |-> "picked",
                               project_path |-> unwrap(host.import_task).project_path,
                               svg_path |-> svg_path])]
    /\ UNCHANGED <<project, tools, reports, pocket, post, call>>

\* import_svg_into_project, first statement: the project file is read.
ImportLoads ==
    /\ host.import_task # None
    /\ unwrap(host.import_task).pc = "picked"
    /\ \E task \in {unwrap(host.import_task)} :
       \E loaded \in {load_from_path(host.disk[task.project_path])} :
          host' = [host EXCEPT !.import_task =
                      IF ~loaded.ok THEN Some([pc |-> "done", result |-> Err(<<"Io">>)])
                      ELSE Some([pc |-> "loaded", project_path |-> task.project_path,
                                 svg_path |-> task.svg_path, data |-> loaded.value])]
    /\ UNCHANGED <<project, tools, reports, pocket, post, call>>

\* import_svg_into_project, the rest: the SVG is imported into what was read
\* and the project file is written.
ImportSaves ==
    /\ host.import_task # None
    /\ unwrap(host.import_task).pc = "loaded"
    /\ \E task \in {unwrap(host.import_task)} :
       \E after \in {import_usvg_group(task.data.shapes,
                                       IF SvgFiles[task.svg_path] = None THEN <<>>
                                       ELSE unwrap(SvgFiles[task.svg_path]))} :
       \E shape_keys \in keys(DOMAIN after.shapes), curve_keys \in keys(DOMAIN after.curves) :
       \E imported \in {project_import_svg(task.data, SvgFiles[task.svg_path],
                                           shape_keys, curve_keys)} :
          IF ~imported.result.ok
          THEN host' = [host EXCEPT !.import_task =
                           Some([pc |-> "done", result |-> Err(<<"Parse">>)])]
          ELSE \E file \in save(imported.project) :
                  host' = [host EXCEPT
                              !.disk[task.project_path] = Some(file),
                              !.import_task =
                                  Some([pc |-> "done",
                                        result |-> Ok(OpenProject(task.project_path,
                                                                  imported.project))])]
    /\ UNCHANGED <<project, tools, reports, pocket, post, call>>

\* Message::SvgImported
SvgImported ==
    /\ host.import_task # None
    /\ unwrap(host.import_task).pc = "done"
    /\ host' = [handle_project_loaded([host EXCEPT !.importing_svg = FALSE],
                                      unwrap(host.import_task).result)
                  EXCEPT !.import_task = None]
    /\ UNCHANGED <<project, tools, reports, pocket, post, call>>

\* Message::SaveOperation with a valid form and no operation being edited:
\* the operation is added to the open project, which is saved.
SaveOperation(operation) ==
    /\ host.project # None
    /\ Len(unwrap(host.project).data.operations) < MaxEdits
    /\ \E open \in {[unwrap(host.project) EXCEPT !.data = add_operation(@, operation)]} :
       \E file \in save(open.data) :
          host' = [host EXCEPT !.project = Some(open), !.disk[open.path] = Some(file)]
    /\ UNCHANGED <<project, tools, reports, pocket, post, call>>

NextHost ==
    \/ OpenProjectDialog
    \/ OpenDialogReturns
    \/ ProjectPicked
    \/ HostImportSvg
    \/ ImportDialogReturns
    \/ ImportLoads
    \/ ImportSaves
    \/ SvgImported
    \/ SaveOperation(Pocket(1, 0, Curves(<<1>>)))

SpecHost == InitHost /\ [][NextHost]_vars

\* ------------------------------------------------------------------ claims
\* What the last call of generate_toolpaths_for_operations returned is in
\* reports until the next call of the API.
ReportIndices == 1..Len(reports)

Failed(k) == reports[k].error # None

Succeeded(k) == reports[k].error = None

\* C1: after generation returns, every operation whose report carries an
\* error has status Dirty in operations_with_status, whatever its state was
\* before the call.
C1_FailedOperationIsDirty ==
    \A k \in ReportIndices :
        Failed(k) => operations_with_status(project)[k] = Dirty

\* C2: generation changes nothing in the project but the states of the
\* operations that succeed: a failed operation's state is the same before and
\* after, and shapes, operations, imported_svgs and stock (and the tool
\* library) are as they were.
C2_GenerationFrame ==
    [][reports' # <<>> =>
          /\ project'.shapes = project.shapes
          /\ project'.operations = project.operations
          /\ project'.imported_svgs = project.imported_svgs
          /\ project'.stock = project.stock
          /\ tools' = tools
          /\ Len(project'.operation_states) = Len(project.operation_states)
          /\ \A k \in 1..Len(reports') :
                reports'[k].error # None =>
                    project'.operation_states[k] = project.operation_states[k]]_vars

\* A generation has returned in which one operation failed while holding the
\* artifact of an earlier run and another succeeded.
C2_Witness ==
    \E k, j \in ReportIndices :
        /\ Failed(k)
        /\ project.operation_states[k].artifact # None
        /\ Succeeded(j)

\* C3: after generation returns, every operation that succeeded is not dirty
\* and holds the artifact just generated (valid, stamped as the report says,
\* with the report's warnings); its report is Ready and has no error.
C3_SucceededOperationIsReady ==
    \A k \in ReportIndices :
        Succeeded(k) =>
            LET state == project.operation_states[k]
                report == reports[k]
                made == generate_toolpath_for_operation(project, tools, k - 1,
                            project.operations[k], report.status.generated_at_epoch_ms)
            IN  /\ state.dirty = FALSE
                /\ report.status.kind = "Ready"
                /\ state.artifact = Some(made.value.artifact)
                /\ unwrap(state.artifact).is_valid
                /\ unwrap(state.artifact).warnings = report.warnings
                /\ report.status = status(state)

\* A generation has returned with a successful operation that carries a
\* warning.
C3_Witness ==
    \E k \in ReportIndices : Succeeded(k) /\ reports[k].warnings # <<>>

\* C4: generation returns one report per operation, in list order with
\* reports[k].operation_index = k, and every operation, after a failed one
\* too, fails or succeeds as it does on its own, its artifact attached.
C4_OneReportPerOperation ==
    reports # <<>> =>
        /\ Len(reports) = Len(project.operations)
        /\ \A k \in ReportIndices :
              LET alone == generate_toolpath_for_operation(project, tools, k - 1,
                               project.operations[k], 0)
              IN  /\ reports[k].operation_index = k - 1
                  /\ Succeeded(k) <=> alone.ok
                  /\ alone.ok =>
                        unwrap(project.operation_states[k].artifact).toolpath
                            = alone.value.artifact.toolpath

\* A generation has returned whose first operation failed and whose second
\* succeeded.
C4_Witness == Len(reports) = 2 /\ Failed(1) /\ Succeeded(2)

\* What operation k depends on: the operation, the tools it names, the curves
\* and the region it targets.
OperationInputs(p, library, k) ==
    LET operation == p.operations[k]
        target == IF operation.kind = "Pocket" THEN operation.target ELSE operation.targets
        region == IF target.kind = "Region" /\ target.region \in DOMAIN p.shapes.regions
                  THEN Some(p.shapes.regions[target.region]) ELSE None
        ids == IF target.kind = "Curves" THEN target.curves
               ELSE IF region = None THEN <<>>
               ELSE <<unwrap(region).outer>> \o unwrap(region).holes
    IN  <<operation,
          Get(library, operation.tool_index),
          IF operation.kind = "VCarve" /\ operation.clearance_tool_index # None
          THEN Get(library, unwrap(operation.clearance_tool_index)) ELSE None,
          region,
          [i \in 1..Len(ids) |->
              IF ids[i] \in DOMAIN p.shapes.curves THEN Some(p.shapes.curves[ids[i]])
              ELSE None]>>

\* C5: whenever an input of an operation changes (the operation, a curve or
\* region it targets, a tool it names) the operation has status Dirty after
\* the change.
C5_InputChangeMarksDirty ==
    [][\A k \in 1..Len(project.operations) :
          (/\ Len(project'.operations) = Len(project.operations)
           /\ OperationInputs(project', tools', k) # OperationInputs(project, tools, k))
          => operations_with_status(project')[k] = Dirty]_vars

\* C10: a V-carve operation whose tool is in the library and is no V-bit has,
\* after generation, no artifact, a report with status Dirty and an error
\* that contains "V-bit".
C10_NonVBitIsReported ==
    \A k \in ReportIndices :
        LET operation == project.operations[k]
            tool == Get(tools, operation.tool_index)
        IN  (operation.kind = "VCarve" /\ tool # None /\ unwrap(tool).tool_type.kind # "VBit")
            => /\ toolpath_for_operation(project, k - 1) = None
               /\ reports[k].status = Dirty
               /\ Failed(k)
               /\ Contains(unwrap(reports[k].error), "V-bit")

\* C6: the G-code is the four header lines, once and first, then for every
\* path that is not empty, in order, n + 2 lines: the rapid to the first
\* vertex, the plunge to its z, a cutting line for each later vertex, the
\* retract; an empty path gives no line.
Gcode == unwrap(post.gcode).lines

PostPaths == SelectSeq(post.toolpath.paths, LAMBDA path : path # <<>>)

\* The number of lines before the lines of the j-th path that is not empty.
LinesBefore(j) ==
    LET count[i \in 0..(j - 1)] ==
            IF i = 0 THEN 4 ELSE count[i - 1] + Len(PostPaths[i]) + 2
    IN  count[j - 1]

C6_GcodeLayout ==
    post.gcode # None =>
        /\ Len(Gcode) = LinesBefore(Len(PostPaths) + 1)
        /\ Gcode[1] = <<Word("G", "90")>>
        /\ Gcode[2] = <<Word("G", "21")>>
        /\ Gcode[3] = <<Word("G", "17")>>
        /\ Gcode[4] = <<Word("G", "0"), Word("Z", "10.0")>>
        /\ \A i \in 5..Len(Gcode) : Gcode[i][1] = Word("G", "0") \/ Gcode[i][1] = Word("G", "1")
        /\ \A j \in 1..Len(PostPaths) :
              LET path == PostPaths[j]
                  at == LinesBefore(j)
              IN  /\ Gcode[at + 1] = <<Word("G", "0"), Word("X", Fmt4(path[1][1])),
                                       Word("Y", Fmt4(path[1][2]))>>
                  /\ Gcode[at + 2] = <<Word("G", "1"), Word("Z", Fmt4(path[1][3])),
                                       Word("F", "100")>>
                  /\ \A i \in 2..Len(path) :
                        Gcode[at + 1 + i] = <<Word("G", "1"), Word("X", Fmt4(path[i][1])),
                                              Word("Y", Fmt4(path[i][2]))>>
                  /\ Gcode[at + Len(path) + 2] = <<Word("G", "0"), Word("Z", "10.0")>>

\* A toolpath with an empty path before a path of three vertices has been
\* post-processed into 4 + 5 lines.
C6_Witness ==
    /\ post.gcode # None
    /\ Len(post.toolpath.paths) = 2
    /\ post.toolpath.paths[1] = <<>>
    /\ Len(post.toolpath.paths[2]) = 3
    /\ Len(Gcode) = 9

\* The region a pocket call starts from.
PocketStartRegion == pocket_region(pocket.outer_boundary, pocket.islands)

\* C7: generate_pocket_toolpath returns an error when nothing is left of the
\* outer boundary after the islands are taken away.
C7_EmptyRegionIsError ==
    (pocket.pc = "done" /\ PocketStartRegion = {}) => ~unwrap(pocket.result).ok

\* C8: the loop of generate_pocket_toolpath ends for every region and every
\* tool the library can hold: the call returns.
C8_PocketLoopTerminates == <>(pocket.pc = "done")

\* The region after k deflations by step.
RECURSIVE DeflatedBy(_, _, _)
DeflatedBy(region, step, k) ==
    IF k = 0 THEN region ELSE Offset(DeflatedBy(region, step, k - 1), -step)

\* The closed rings of the k-th deflation, at depth z.
RingsOfStep(region, step, k, z) ==
    LET rings == Concat(polygons(DeflatedBy(region, step, k)))
    IN  [i \in 1..Len(rings) |-> Append(At3D(rings[i], z), <<rings[i][1][1], rings[i][1][2], z>>)]

\* C9: every path generate_pocket_toolpath returns is not empty, ends where
\* it starts and lies at z = -target_depth, and the paths are the rings of
\* the first deflation, then those of the second, and so on.
C9_PocketPaths ==
    (pocket.pc = "done" /\ unwrap(pocket.result).ok) =>
        LET paths == unwrap(pocket.result).value.paths
        IN  /\ \A i \in 1..Len(paths) :
                  /\ paths[i] # <<>>
                  /\ paths[i][1] = Last(paths[i])
                  /\ \A v \in 1..Len(paths[i]) : paths[i][v][3] = -pocket.target_depth
            /\ paths = Concat([k \in 1..MaxRings |->
                          RingsOfStep(PocketStartRegion, pocket.stepover_dist, k,
                                      -pocket.target_depth)])
            /\ unwrap(pocket.result) =
                   generate_pocket_toolpath(pocket.outer_boundary, pocket.islands,
                                            pocket.tool, pocket.target_depth)

\* A pocket call has returned rings of two deflations, two of them from the
\* first.
C9_Witness ==
    /\ pocket.pc = "done"
    /\ Len(unwrap(pocket.result).value.paths) >= 3
    /\ Len(RingsOfStep(PocketStartRegion, pocket.stepover_dist, 1, 0)) = 2
    /\ Len(RingsOfStep(PocketStartRegion, pocket.stepover_dist, 2, 0)) >= 1

\* The vertices of the toolpath a V-carve call returned.
CarveVertices ==
    LET paths == unwrap(call.result).value.paths
    IN  UNION {Range(paths[i]) : i \in 1..Len(paths)}

TargetOf(operation) ==
    IF operation.kind = "Pocket" THEN operation.target ELSE operation.targets

ReferencedCurves(p, operation) ==
    LET target == TargetOf(operation)
    IN  IF target.kind = "Curves" THEN Range(target.curves)
        ELSE IF target.region \in DOMAIN p.shapes.regions
        THEN {p.shapes.regions[target.region].outer}
                 \cup Range(p.shapes.regions[target.region].holes)
        ELSE {}

Dangling(p, operation) ==
    \/ ReferencedCurves(p, operation) \ DOMAIN p.shapes.curves # {}
    \/ /\ TargetOf(operation).kind = "Region"
       /\ TargetOf(operation).region \notin DOMAIN p.shapes.regions

\* C12: after generation, an operation that refers to a curve or region id
\* that is not in the registry has a report with an error and no artifact.
C12_DanglingTargetIsReported ==
    \A k \in ReportIndices :
        Dangling(project, project.operations[k])
            => Failed(k) /\ toolpath_for_operation(project, k - 1) = None

\* The loops the arm of an operation hands to its generator: none when the
\* tool, the targets or the clearance pass fail before the generator is called.
PassedLoops(p, library, index, operation) ==
    LET curve_transforms == build_curve_transform_map(p.imported_svgs)
        tool_slot == Get(library, operation.tool_index)
        target == TargetOf(operation)
        region == resolve_region(p.shapes, target.region, curve_transforms)
        listed == flatten_curves(p.shapes, target.curves, curve_transforms)
        first == first_polygon(p.shapes, target, curve_transforms)
        carve == collect_vcarve_polygons(p.shapes, target, curve_transforms)
    IN  IF tool_slot = None THEN {}
        ELSE CASE operation.kind = "Profile" ->
                    IF first.ok /\ first.value # None THEN {unwrap(first.value)} ELSE {}
               [] operation.kind = "Pocket" ->
                    IF target.kind = "Region"
                    THEN IF region.ok
                         THEN {region.value.outer} \cup Range(region.value.holes)
                         ELSE {}
                    ELSE IF listed.ok THEN Range(listed.value) ELSE {}
               [] OTHER ->
                    IF ~carve.ok THEN {}
                    ELSE IF /\ operation.clearance_tool_index # None
                            /\ ~clearance_block(library, index, operation, unwrap(tool_slot),
                                                carve.value).ok
                    THEN {}
                    ELSE UNION {{carve.value[i].outer} \cup Range(carve.value[i].holes) :
                                   i \in 1..Len(carve.value)}

\* A curve that is not closed or has fewer than three distinct vertices.
OpenOrThin(curve) == ~is_closed(curve) \/ Cardinality(Range(flatten(curve))) < 3

\* C13: the loop of a targeted curve that is not closed, or has fewer than
\* three distinct vertices, is not handed to a generator, or the operation is
\* reported with an error.
C13_OpenCurveIsNotGenerated ==
    \A k \in ReportIndices :
        \A id \in ReferencedCurves(project, project.operations[k])
                    \cap DOMAIN project.shapes.curves :
            OpenOrThin(project.shapes.curves[id])
                => \/ close_loop(flatten(project.shapes.curves[id]))
                          \notin PassedLoops(project, tools, k - 1, project.operations[k])
                   \/ Failed(k)

\* The ids a returned import call added to a map of the registry.
Inserted(map) ==
    DOMAIN unwrap(call.result).project.shapes[map] \ DOMAIN call.project.shapes[map]

\* C14: the batch of a successful import names exactly the curves and shapes
\* the call inserted, each once, whatever the registry held before, and the
\* SvgImport the project records holds the ids of the batch.
C14_BatchIsWhatWasInserted ==
    (call.fn = "import_svg" /\ call.result # None /\ unwrap(call.result).result.ok)
        => LET returned == unwrap(call.result)
               batch == returned.batch.value
           IN  /\ Range(batch.curve_ids) = Inserted("curves")
               /\ Range(batch.shape_ids) = Inserted("shapes")
               /\ Len(batch.curve_ids) = Cardinality(Inserted("curves"))
               /\ Len(batch.shape_ids) = Cardinality(Inserted("shapes"))
               /\ Last(returned.project.imported_svgs).curve_ids = batch.curve_ids
               /\ Last(returned.project.imported_svgs).shape_ids = batch.shape_ids

\* The state of the operation at index j, dirty and bare where no slot is stored.
StateAt(p, j) ==
    IF Get(p.operation_states, j) # None THEN unwrap(Get(p.operation_states, j))
    ELSE dirty_state

\* C15: remove_operation(i) with a valid i returns operations[i] and leaves
\* every other operation with its state, those before i in place and those
\* after i one index lower; with an invalid i it returns an error and changes
\* nothing, and so does update_operation.
C15_RemoveOperationShifts ==
    [][\A index \in 0..MaxOps :
          /\ RemoveOperation(index) =>
                LET n == Len(project.operations)
                    result == remove_operation(project, index).result
                IN  IF index < n
                    THEN /\ result = Ok(project.operations[index + 1])
                         /\ Len(project'.operations) = n - 1
                         /\ Len(project'.operation_states) = n - 1
                         /\ \A j \in 0..(n - 1) :
                               /\ j < index =>
                                     /\ project'.operations[j + 1] = project.operations[j + 1]
                                     /\ StateAt(project', j) = StateAt(project, j)
                               /\ j > index =>
                                     /\ project'.operations[j] = project.operations[j + 1]
                                     /\ StateAt(project', j - 1) = StateAt(project, j)
                    ELSE ~result.ok /\ project' = project
          /\ \A operation \in OperationCatalog :
                (UpdateOperation(index, operation) /\ index >= Len(project.operations))
                    => /\ ~update_operation(project, index, operation).result.ok
                       /\ project' = project]_vars

\* One operation is left, with the artifact that was generated for it at
\* index 1: the operation before it was removed.
C15_Witness ==
    /\ Len(project.operations) = 1
    /\ toolpath_for_operation(project, 0) # None
    /\ unwrap(toolpath_for_operation(project, 0)).operation_index = 1

\* The tool indices of an operation that the library does not hold.
MissingTools(library, operation) ==
    {i \in {operation.tool_index} : Get(library, i) = None}
        \cup (IF operation.kind = "VCarve" /\ operation.clearance_tool_index # None
              THEN {i \in {unwrap(operation.clearance_tool_index)} : Get(library, i) = None}
              ELSE {})

\* C16: after generation, an operation with a tool index or a clearance tool
\* index outside the library has a report whose error is "Tool #i not found"
\* for such an index i, also when its targets cannot be resolved.
C16_MissingToolIsReported ==
    \A k \in ReportIndices :
        MissingTools(tools, project.operations[k]) # {}
            => /\ Failed(k)
               /\ \E i \in MissingTools(tools, project.operations[k]) :
                     unwrap(reports[k].error) = to_string(tool_not_found(i))

\* C17: a V-carve with a clearance tool that was generated has, without a
\* positive max depth, exactly one warning in its report and in its artifact,
\* a valid artifact, status Ready with warning_count 1 and a clearance pass
\* at depth 1; with a positive max depth it has no warning and a clearance
\* pass at that depth.
C17_ClearanceDepthDefault ==
    \A k \in ReportIndices :
        LET operation == project.operations[k]
            has_depth == operation.target_depth # None /\ unwrap(operation.target_depth) > 0
            count == IF has_depth THEN 0 ELSE 1
            depth == IF has_depth THEN unwrap(operation.target_depth) ELSE 1
            artifact == unwrap(toolpath_for_operation(project, k - 1))
            ready == Ready(artifact.generated_at_epoch_ms, count)
        IN  (operation.kind = "VCarve" /\ operation.clearance_tool_index # None
                /\ Succeeded(k))
            => /\ toolpath_for_operation(project, k - 1) # None
               /\ Len(reports[k].warnings) = count
               /\ Len(artifact.warnings) = count
               /\ artifact.is_valid
               /\ reports[k].status = ready
               /\ operations_with_status(project)[k] = ready
               /\ artifact.passes[1].kind = "Clearance"
               /\ \A i \in 1..Len(artifact.passes[1].toolpath.paths) :
                     \A v \in Range(artifact.passes[1].toolpath.paths[i]) : v[3] = -depth

\* The clearance pass a generated V-carve of the given max depth has cut.
ClearedAt(max_depth, z) ==
    \E k \in ReportIndices :
        /\ project.operations[k].kind = "VCarve"
        /\ project.operations[k].clearance_tool_index # None
        /\ project.operations[k].target_depth = max_depth
        /\ Succeeded(k)
        /\ \E v \in Range(unwrap(toolpath_for_operation(project, k - 1))
                               .passes[1].toolpath.paths[1]) : v[3] = z

C17_Witness == ClearedAt(None, -1)

\* C18: a project file that is loaded and saved again without a change in
\* between is written back as it was (the time stamp apart).
C18_LoadSaveRoundTrip ==
    (call.fn = "load_from_path" /\ call.saved # None /\ ~call.synced)
        => call.saved = call.file

\* The project a file was loaded into.
Loaded == unwrap(call.result).value

\* C19: a project loaded from a file without operation_states reports every
\* operation Dirty and has no toolpath for any index; after
\* sync_operation_states it has one dirty slot without artifact per operation.
C19_MissingStatesAreDirty ==
    (/\ call.fn = "load_from_path"
     /\ call.result # None
     /\ unwrap(call.result).ok
     /\ unwrap(call.file).operation_states = None)
        => /\ \A k \in 1..Len(Loaded.operations) :
                 /\ operations_with_status(Loaded)[k] = Dirty
                 /\ toolpath_for_operation(Loaded, k - 1) = None
           /\ call.synced =>
                 /\ Len(Loaded.operation_states) = Len(Loaded.operations)
                 /\ \A k \in 1..Len(Loaded.operations) :
                       Loaded.operation_states[k] = [dirty |-> TRUE, artifact |-> None]

\* A file with two operations and no operation_states was loaded and synced.
C19_Witness ==
    /\ call.fn = "load_from_path"
    /\ call.result # None
    /\ unwrap(call.result).ok
    /\ unwrap(call.file).operation_states = None
    /\ call.synced
    /\ Len(Loaded.operations) = 2
    /\ Len(Loaded.operation_states) = 2

\* The paths of the polygons of the input of a profile call, offset by delta.
ProfileOffset(delta) == polygons(inflate(Cells(call.input_poly), delta))

\* C20: generate_profile_toolpath offsets the input by half the tool
\* diameter outwards (Outside), inwards (Inside) or not at all (OnLine); it
\* returns one path, the first path of the offset result vertex by vertex at
\* z = -target_depth, or an error when the offset result is empty.
C20_ProfileIsFirstOffsetPath ==
    (call.fn = "generate_profile_toolpath" /\ call.result # None)
        => LET result == unwrap(call.result)
               half == call.tool.diameter \div 2
               offset == ProfileOffset(CASE call.cut_side = "Outside" -> half
                                         [] call.cut_side = "Inside" -> -half
                                         [] call.cut_side = "OnLine" -> 0)
           IN  IF offset = <<>> THEN ~result.ok
               ELSE /\ result.ok
                    /\ Len(result.value.paths) = 1
                    /\ Len(result.value.paths[1]) = Len(offset[1][1])
                    /\ \A i \in 1..Len(offset[1][1]) :
                          result.value.paths[1][i] =
                              <<offset[1][1][i][1], offset[1][1][i][2], -call.target_depth>>

\* An outline of width 6 was cut on the inside with a tool of diameter 4: the
\* path is two units wide.
C20_Witness ==
    /\ call.fn = "generate_profile_toolpath"
    /\ call.result # None
    /\ unwrap(call.result).ok
    /\ call.cut_side = "Inside"
    /\ call.tool.diameter = 4
    /\ {v[1] : v \in Range(unwrap(call.result).value.paths[1])} = {2, 4}

\* The cells a cutter of the given diameter removes when its centre is at x.
Footprint(x, diameter) == (x - diameter \div 2)..(x + diameter \div 2 - 1)

\* C21: a cutter of the tool's diameter centred on any vertex of any ring
\* generate_pocket_toolpath returns stays inside the pocket region: every
\* vertex is at least the tool radius away from the outer boundary and from
\* every island.
C21_PocketRingsKeepRadius ==
    (pocket.pc = "done" /\ unwrap(pocket.result).ok) =>
        LET paths == unwrap(pocket.result).value.paths
        IN  \A i \in 1..Len(paths) : \A v \in 1..Len(paths[i]) :
                Footprint(paths[i][v][1], pocket.tool.diameter) \subseteq PocketStartRegion

\* The number a G-code word carries.
Num(text) == IF text = "10.0" THEN 10 ELSE CHOOSE v \in -10..10 : Fmt4(v) = text

\* The machine's position after a line: an axis word moves that axis, the
\* other axes stay (G90, absolute positioning).
Moved(position, line) ==
    [k \in 1..3 |->
        LET axis == <<"X", "Y", "Z">>[k]
        IN  IF \E w \in 1..Len(line) : line[w][1] = axis
            THEN Num(line[CHOOSE w \in 1..Len(line) : line[w][1] = axis][2])
            ELSE position[k]]

\* The position after the first n lines of the G-code, from the origin.
PositionAfter(n) ==
    LET at[i \in 0..n] == IF i = 0 THEN <<0, 0, 0>> ELSE Moved(at[i - 1], Gcode[i])
    IN  at[n]

\* C22: replaying the G-code brings the tool, for every path, to each of its
\* vertices at that vertex's own depth: after the plunge it is at the first
\* vertex, after the i-th cutting line at vertex i + 1, x, y and z.
C22_ReplayCutsEachDepth ==
    post.gcode # None =>
        \A j \in 1..Len(PostPaths) :
            /\ PositionAfter(LinesBefore(j) + 2) = PostPaths[j][1]
            /\ \A i \in 2..Len(PostPaths[j]) :
                   PositionAfter(LinesBefore(j) + 1 + i) = PostPaths[j][i]

\* The walk's inputs as the claim names them: the limit distance L, the max
\* depth, tan_a, and the distance d of the i-th coordinate of the segment.
WalkTan == tan_half(call.tool.tool_type.angle_degrees)

WalkMaxDepth == IF call.max_depth # None THEN unwrap(call.max_depth) ELSE F64Max

WalkLimit == IF call.max_depth # None THEN unwrap(call.max_depth) * WalkTan ELSE F64Max

WalkDistance(i) ==
    distance_to_polygon_boundary(call.segment[i], build_geo_polygon(call.poly).value)

WalkShallow(i) == WalkDistance(i) <= WalkLimit

\* t = (L - d_prev) / (d_curr - d_prev) lies in [0, 1].
CrossingInRange(prev, curr) ==
    LET num == WalkLimit - WalkDistance(prev)
        den == WalkDistance(curr) - WalkDistance(prev)
    IN  IF den > 0 THEN 0 <= num /\ num <= den ELSE den < 0 /\ den <= num /\ num <= 0

\* The crossing point p_prev + t (p_curr - p_prev) at z = -max_depth.
Crossing(prev, curr) ==
    LET num == WalkLimit - WalkDistance(prev)
        den == WalkDistance(curr) - WalkDistance(prev)
        along(k) == CHOOSE c \in -10..10 :
                        (c - call.segment[prev][k]) * den
                            = num * (call.segment[curr][k] - call.segment[prev][k])
    IN  <<along(1), along(2), -WalkMaxDepth>>

\* The path of the shallow vertices first..last, a maximal run of them: the
\* crossing before it if a deep vertex precedes, the vertices at
\* z = -d / tan_a, the crossing after it if a deep vertex follows.
WalkedPath(first, last) ==
    (IF first > 1 THEN <<Crossing(first - 1, first)>> ELSE <<>>)
        \o [k \in 1..(last - first + 1) |->
               <<call.segment[first + k - 1][1], call.segment[first + k - 1][2],
                 -(WalkDistance(first + k - 1) \div WalkTan)>>]
        \o (IF last < Len(call.segment) THEN <<Crossing(last, last + 1)>> ELSE <<>>)

\* Where the maximal runs of shallow vertices start, and where one ends.
WalkStarts ==
    {i \in 1..Len(call.segment) : WalkShallow(i) /\ (i = 1 \/ ~WalkShallow(i - 1))}

WalkEnd(first) ==
    SetMin({j \in first..Len(call.segment) :
               j = Len(call.segment) \/ ~WalkShallow(j + 1)})

\* C23: the walk along one skeleton segment emits one path for every maximal
\* run of shallow vertices, in order: shallow after shallow continues the
\* path at z = -d / tan_a, deep after deep emits nothing, shallow to deep ends
\* the path with the crossing point at z = -max_depth, deep to shallow starts
\* a path with the crossing point; the crossing has 0 <= t <= 1 and every
\* path has at least two vertices.
C23_WalkEmitsShallowRuns ==
    (call.fn = "walk_segment" /\ call.result # None /\ Len(call.segment) >= 2) =>
        LET paths == unwrap(call.result)
        IN  /\ Len(paths) = Cardinality(WalkStarts)
            /\ \A first \in WalkStarts :
                   paths[Cardinality({i \in WalkStarts : i <= first})]
                       = WalkedPath(first, WalkEnd(first))
            /\ \A i \in 1..Len(paths) : Len(paths[i]) >= 2
            /\ \A i \in 1..(Len(call.segment) - 1) :
                   WalkShallow(i) # WalkShallow(i + 1) => CrossingInRange(i, i + 1)

\* A segment from wall to ridge to wall under a max depth of 1 has been
\* walked: a path that ends at the crossing into the deep part and a path
\* that starts at the crossing out of it.
C23_Witness ==
    /\ call.fn = "walk_segment"
    /\ call.result # None
    /\ call.max_depth = Some(1)
    /\ call.segment = << <<0, SkeletonY>>, <<3, SkeletonY>>, <<6, SkeletonY>> >>
    /\ unwrap(call.result) =
           << << <<0, SkeletonY, 0>>, <<1, SkeletonY, -1>> >>,
              << <<5, SkeletonY, -1>>, <<6, SkeletonY, 0>> >> >>

\* The kinds of line of the G-code.
IsRetract(line) == line = <<Word("G", "0"), Word("Z", "10.0")>>

IsRapidXY(line) ==
    Len(line) = 3 /\ line[1] = Word("G", "0") /\ line[2][1] = "X" /\ line[3][1] = "Y"

IsPlunge(line) == Len(line) = 3 /\ line[1] = Word("G", "1") /\ line[2][1] = "Z"

IsCut(line) ==
    Len(line) = 3 /\ line[1] = Word("G", "1") /\ line[2][1] = "X" /\ line[3][1] = "Y"

\* C24: in the G-code every rapid in XY comes right after a retract to
\* Z10.0, with the tool at that height; every plunge comes right after the
\* rapid to the first vertex of its path; every cutting line lies in a block
\* of cutting lines that starts after a plunge and ends at a retract; the
\* last line is the retract, which leaves the tool at the safe height.
C24_RapidsAtSafeHeight ==
    post.gcode # None =>
        /\ \A i \in 1..Len(Gcode) :
              IsRapidXY(Gcode[i]) =>
                  i > 1 /\ IsRetract(Gcode[i - 1]) /\ PositionAfter(i - 1)[3] = 10
        /\ \A i \in 1..Len(Gcode) :
              IsPlunge(Gcode[i]) =>
                  LET first == PostPaths[Cardinality({k \in 1..i : IsPlunge(Gcode[k])})][1]
                  IN  /\ i > 1
                      /\ IsRapidXY(Gcode[i - 1])
                      /\ PositionAfter(i - 1) = <<first[1], first[2], 10>>
                      /\ PositionAfter(i) = first
        /\ \A i \in 1..Len(Gcode) :
              IsCut(Gcode[i]) =>
                  /\ \E a \in 1..(i - 1) :
                        IsPlunge(Gcode[a]) /\ \A k \in (a + 1)..i : IsCut(Gcode[k])
                  /\ \E b \in (i + 1)..Len(Gcode) :
                        IsRetract(Gcode[b]) /\ \A k \in i..(b - 1) : IsCut(Gcode[k])
        /\ Cardinality({k \in 1..Len(Gcode) : IsPlunge(Gcode[k])}) = Len(PostPaths)
        /\ IsRetract(Gcode[Len(Gcode)])
        /\ PositionAfter(Len(Gcode))[3] = 10

\* Two paths of three vertices each have been post-processed: the second
\* rapid follows the retract of the first path.
C24_Witness ==
    /\ post.gcode # None
    /\ Len(post.toolpath.paths) = 2
    /\ Len(post.toolpath.paths[1]) = 3
    /\ Len(post.toolpath.paths[2]) = 3
    /\ IsRetract(Gcode[9])
    /\ IsRapidXY(Gcode[10])

\* C25: every operation state is dirty exactly when it holds no artifact.
C25_DirtyIffNoArtifact ==
    \A k \in 1..Len(project.operation_states) :
        project.operation_states[k].dirty <=> (project.operation_states[k].artifact = None)

\* Two operations, the first with an artifact and clean, the second dirty
\* without one.
C25_Witness ==
    /\ Len(project.operation_states) = 2
    /\ ~project.operation_states[1].dirty
    /\ project.operation_states[1].artifact # None
    /\ project.operation_states[2] = dirty_state

\* C26: an artifact stored in operation_states[i] has operation_index = i
\* (indices from 0).
C26_ArtifactIndexIsItsSlot ==
    \A k \in 1..Len(project.operation_states) :
        project.operation_states[k].artifact # None
            => unwrap(project.operation_states[k].artifact).operation_index = k - 1

\* C28: operation_states and operations have the same length.
C28_OneStatePerOperation == Len(project.operation_states) = Len(project.operations)

\* A project of one operation left after operations were added and removed
\* and a method was called with an index that is out of range.
C28_Witness ==
    /\ Len(project.operations) = 1
    /\ Len(project.operation_states) = 1
    /\ project.operation_states[1].artifact # None
    /\ unwrap(project.operation_states[1].artifact).operation_index = 1
    /\ ~attach_toolpath(project, 1, unwrap(project.operation_states[1].artifact)).result.ok

\* C27: when Message::SvgImported delivers an import that succeeded, the
\* open project stays the open project if it is not the one the import was
\* started for; otherwise the open project afterwards, in memory and on
\* disk, has the operations it had before the message together with the
\* import.
C27_ImportKeepsOpenProject ==
    [][(/\ host.import_task # None
        /\ unwrap(host.import_task).pc = "done"
        /\ unwrap(host.import_task).result.ok
        /\ host.project # None
        /\ host'.import_task = None)
          => LET before == unwrap(host.project)
                 imported == unwrap(host.import_task).result.value
                 after == unwrap(host'.project)
                 file == load_from_path(host'.disk[before.path]).value
             IN  IF before.path # imported.path
                 THEN after = before
                 ELSE /\ after.data.operations = before.data.operations
                      /\ after.data.imported_svgs = imported.data.imported_svgs
                      /\ file.operations = before.data.operations
                      /\ file.imported_svgs = imported.data.imported_svgs]_vars

\* The loops target resolution hands on in generate_toolpath_for_operation, in
\* the order the arm holds them: the profiled loop; the outer boundary, then
\* its islands; the outer and the holes of each polygon in turn.
ResolvedLoops(p, operation) ==
    LET curve_transforms == build_curve_transform_map(p.imported_svgs)
        target == TargetOf(operation)
        first == first_polygon(p.shapes, target, curve_transforms)
        region == resolve_region(p.shapes, target.region, curve_transforms)
        listed == flatten_curves(p.shapes, target.curves, curve_transforms)
        carve == collect_vcarve_polygons(p.shapes, target, curve_transforms)
    IN  CASE operation.kind = "Profile" ->
                IF ~first.ok THEN first
                ELSE IF first.value = None THEN Err(<<"Profile", "requires", "geometry">>)
                ELSE Ok(<<unwrap(first.value)>>)
          [] operation.kind = "Pocket" /\ target.kind = "Region" ->
                IF ~region.ok THEN region
                ELSE Ok(<<region.value.outer>> \o region.value.holes)
          [] operation.kind = "Pocket" ->
                IF ~listed.ok THEN listed
                ELSE IF listed.value = <<>>
                THEN Err(<<"Pocket", "requires", "at", "least", "one", "closed", "curve">>)
                ELSE Ok(<<Last(listed.value)>>
                            \o SubSeq(listed.value, 1, Len(listed.value) - 1))
          [] OTHER ->
                IF ~carve.ok THEN carve
                ELSE Ok(Concat([i \in 1..Len(carve.value) |->
                            <<carve.value[i].outer>> \o carve.value[i].holes]))

\* A preview call on an operation of the project has returned.
Previewed ==
    /\ call # None
    /\ call.fn = "polygons_for_operation"
    /\ call.index < Len(project.operations)

\* C29: polygons_for_operation succeeds exactly when the target resolution of
\* generation succeeds for the operation at that index, and then returns the
\* loops generation hands to the generator: the profiled loop; the outer
\* boundary and its islands; the outer and holes of every V-carve polygon.
C29_PreviewIsTargetResolution ==
    Previewed
        => LET resolved == ResolvedLoops(project, project.operations[call.index + 1])
           IN  /\ call.result.ok = resolved.ok
               /\ resolved.ok => call.result.value = resolved.value

\* C29 as the code has it: the preview returns what target resolution returns
\* in generation, the same loops or the same error, except that it succeeds
\* with no loops where generation fails for want of geometry: a Profile on an
\* empty curve list, a V-carve whose curve list leaves no loop.
C29_PreviewCoversResolution ==
    Previewed
        => LET operation == project.operations[call.index + 1]
               resolved == ResolvedLoops(project, operation)
           IN  \/ call.result = resolved
               \/ /\ call.result = Ok(<<>>)
                  /\ \/ /\ operation.kind = "Profile"
                        /\ resolved = Err(<<"Profile", "requires", "geometry">>)
                     \/ /\ operation.kind = "VCarve"
                        /\ resolved = Err(<<"V-carve", "requires", "at", "least", "one",
                                            "closed", "polygon">>)

\* A preview that succeeded with loops.
C29_Witness ==
    Previewed /\ call.result.ok /\ Len(call.result.value) >= 2

\* A reported Pocket operation on a list of curves, each in the registry, with
\* its tool in the library.
PocketOnCurves(k) ==
    LET operation == project.operations[k]
    IN  /\ operation.kind = "Pocket"
        /\ operation.target.kind = "Curves"
        /\ operation.target.curves # <<>>
        /\ Range(operation.target.curves) \subseteq DOMAIN project.shapes.curves
        /\ Get(tools, operation.tool_index) # None

\* The closed loop of the i-th curve of the target list of operation k.
LoopOf(k, i) ==
    close_loop(flatten_curve(project.shapes, project.operations[k].target.curves[i],
                             build_curve_transform_map(project.imported_svgs)).value)

\* The pocket of the last listed curve with every other listed curve, in list
\* order, as an island.
LastCurvePocket(k) ==
    LET operation == project.operations[k]
        n == Len(operation.target.curves)
    IN  generate_pocket_toolpath(LoopOf(k, n), [i \in 1..(n - 1) |-> LoopOf(k, i)],
                                 unwrap(Get(tools, operation.tool_index)),
                                 operation.target_depth)

\* C30: a generated Pocket operation with a Curves target carries the pocket of
\* the last curve of its list as outer boundary, with every other curve of the
\* list, in list order, as an island.
C30_LastCurveIsOuter ==
    \A k \in ReportIndices :
        (PocketOnCurves(k) /\ LastCurvePocket(k).ok)
            => /\ ~Failed(k)
               /\ toolpath_for_operation(project, k - 1) # None
               /\ unwrap(toolpath_for_operation(project, k - 1)).toolpath
                      = LastCurvePocket(k).value

\* The loops of the listed curves of operation k that have at least three
\* vertices, in list order.
KeptLoops(k) ==
    SelectSeq([i \in 1..Len(project.operations[k].target.curves) |-> LoopOf(k, i)],
              LAMBDA points : Len(points) >= 3)

\* The pocket of the last kept loop with every other kept loop as an island.
LastKeptPocket(k) ==
    generate_pocket_toolpath(Last(KeptLoops(k)),
                             SubSeq(KeptLoops(k), 1, Len(KeptLoops(k)) - 1),
                             unwrap(Get(tools, project.operations[k].tool_index)),
                             project.operations[k].target_depth)

\* C30 as the code has it: loops of fewer than three vertices are discarded
\* first; the last curve left is the outer boundary and every other curve
\* left, in list order, an island; with no curve left the operation fails.
C30_LastKeptCurveIsOuter ==
    \A k \in ReportIndices :
        PocketOnCurves(k)
            => IF KeptLoops(k) = <<>> THEN Failed(k)
               ELSE LastKeptPocket(k).ok
                        => /\ ~Failed(k)
                           /\ toolpath_for_operation(project, k - 1) # None
                           /\ unwrap(toolpath_for_operation(project, k - 1)).toolpath
                                  = LastKeptPocket(k).value

\* A generated pocket of two listed curves, both kept, that has paths.
C30_Witness ==
    \E k \in ReportIndices :
        /\ PocketOnCurves(k)
        /\ Len(KeptLoops(k)) = 2
        /\ ~Failed(k)
        /\ unwrap(toolpath_for_operation(project, k - 1)).toolpath.paths # <<>>
====
